---- MODULE Spec2Model ----
(***************************************************************************)
(* Email classification-and-response pipeline.                             *)
(*                                                                         *)
(*   - src/src/core/email_processor.py  EmailProcessor                     *)
(*   - src/src/ai/llm_client.py         LLMClient                          *)
(*   - src/src/api/endpoints/emails.py  process_email                      *)
(*   - src/src/data/models.py           pydantic models                    *)
(*   - src/enhanced_email_classifier.py classify_email (retry by recursion)*)
(*   - src/src/ai/semantic_search.py   SemanticSearchEngine               *)
(*   - src/src/ai/text_analyzer.py     TextAnalyzer                        *)
(*   - src/src/api/endpoints/search.py search_emails                      *)
(*   - src/simple_email_classifier.py  EmailClassifier.classify_dataframe *)
(*                                                                         *)
(* Text is a sequence of one-character strings, so that lower(), strip()   *)
(* and the substring test `kw in text` are computed character by character.*)
(* Confidence values are in tenths (9 stands for 0.9).                     *)
(***************************************************************************)
EXTENDS Integers, Sequences, FiniteSets, TLC

VARIABLES
    \* ---- process_email pipeline (rich schema) ----
    email,           \* the EmailRequest: [subject, body, sender]
    pc,              \* position of the process_email coroutine
    ai_reply,        \* outcome of the classification completion call
    priority,        \* value computed by _determine_priority (local of classify_email)
    classification,  \* EmailClassification returned by classify_email, or NoValue
    resp_reply,      \* outcome of the response completion call
    response,        \* EmailResponse returned by generate_response, or NoValue
    stored,          \* TRUE once processor.store_email has returned
    http_status,     \* status of the endpoint's answer: 0 while running, 200, 422, 500
    \* ---- enhanced_email_classifier.classify_email (lean schema) ----
    ec_subject,      \* parameter subject of the current (recursive) invocation
    ec_body,         \* parameter body of the current invocation
    retry_count,     \* parameter retry_count of the current invocation
    ec_pc,           \* "call", "sleep" or "done"
    ec_result,       \* the returned category, or NoValue
    events,          \* history: the completion calls' outcomes and the sleeps, in order
    \* ---- SemanticSearchEngine ----
    index,           \* the entries of the "emails" collection of the vector store
    last_op,         \* the last call of add_email, search or find_similar and its outcome
    \* ---- TextAnalyzer ----
    ta_text,         \* the text handed to the analyzer
    ta_max_keywords, \* parameter max_keywords of extract_keywords
    ta_sentiment,    \* what analyze_sentiment returned, "none" before the call
    ta_keywords,     \* <<list>> that extract_keywords returned, <<>> before the call
    ta_entities,     \* <<list>> that extract_entities returned, <<>> before the call
    ta_language,     \* what detect_language returned, "none" before the call
    \* ---- SemanticSearchEngine._create_snippet ----
    sn_document,     \* parameter document
    sn_query,        \* parameter query
    sn_snippet,      \* <<snippet>> that was returned, <<>> before the call
    \* ---- process_email, several requests at a time ----
    requests,        \* for each request in progress: its email, its position, its locals
    database,        \* the rows of table emails
    \* ---- process_email_batch and classify_dataframe ----
    b_function,      \* which of the two is running
    b_rows,          \* the rows of the data frame: index label and what the completion does
    b_pos,           \* how many rows the loop has gone through
    b_categories,    \* the list categories
    b_pc,            \* "loop", "assign", "returned" or "raised"
    b_column         \* <<column>>: the 'category' column of the returned frame, else <<>>

vars == <<email, pc, ai_reply, priority, classification, resp_reply, response,
          stored, http_status, ec_subject, ec_body, retry_count, ec_pc,
          ec_result, events, index, last_op, ta_text, ta_max_keywords,
          ta_sentiment, ta_keywords, ta_entities, ta_language, sn_document,
          sn_query, sn_snippet, requests, database, b_function, b_rows, b_pos,
          b_categories, b_pc, b_column>>

pipelineVars == <<email, pc, ai_reply, priority, classification, resp_reply,
                  response, stored, http_status>>

retryVars == <<ec_subject, ec_body, retry_count, ec_pc, ec_result, events>>

indexVars == <<index, last_op>>

analyzerVars == <<ta_text, ta_max_keywords, ta_sentiment, ta_keywords,
                  ta_entities, ta_language>>

snippetVars == <<sn_document, sn_query, sn_snippet>>

concurrentVars == <<requests, database>>

batchVars == <<b_function, b_rows, b_pos, b_categories, b_pc, b_column>>

-----------------------------------------------------------------------------
(* Bounds *)

\* an email field is the concatenation of at most MaxFrags fragments
MaxFrags == 1

-----------------------------------------------------------------------------
(* Text *)

UpperAlpha == <<"A","B","C","D","E","F","G","H","I","J","K","L","M",
                "N","O","P","Q","R","S","T","U","V","W","X","Y","Z">>

LowerAlpha == <<"a","b","c","d","e","f","g","h","i","j","k","l","m",
                "n","o","p","q","r","s","t","u","v","w","x","y","z">>

\* the lower-case letter of every upper-case letter
ToLower ==
    [c \in {UpperAlpha[i] : i \in DOMAIN UpperAlpha} |->
        LowerAlpha[CHOOSE i \in DOMAIN UpperAlpha : UpperAlpha[i] = c]]

\* str.lower() on one character
LowerChar(c) == IF c \in DOMAIN ToLower THEN ToLower[c] ELSE c

\* str.lower()
Lower(s) == [i \in 1..Len(s) |-> LowerChar(s[i])]

\* Python's `k in s` on strings: k is a contiguous substring of s
Contains(s, k) ==
    \E i \in 1..(Len(s) - Len(k) + 1) : SubSeq(s, i, i + Len(k) - 1) = k

Whitespace == {" ", "\n", "\t", "\r", "\f"}

\* str.strip(): drop leading and trailing whitespace
Strip(s) ==
    LET keep == {i \in 1..Len(s) : s[i] \notin Whitespace}
    IN  IF keep = {} THEN <<>>
        ELSE LET lo == CHOOSE i \in keep : \A j \in keep : i <= j
                 hi == CHOOSE i \in keep : \A j \in keep : j <= i
             IN  SubSeq(s, lo, hi)

\* the text consisting of n copies of the character c
Rep(c, n) == [i \in 1..n |-> c]

-----------------------------------------------------------------------------
(* src/src/data/models.py *)

EmailCategory == {"support", "complaint", "inquiry", "order", "billing",
                  "technical", "general"}

EmailPriority == {"low", "medium", "high", "urgent"}

EmailSentiment == {"positive", "neutral", "negative"}

\* a value that is no result (Python: the name is unbound / nothing returned)
NoValue == [none |-> TRUE]

\* Field(..., ge=0.0, le=1.0), in tenths
ConfidenceInRange(c) == c >= 0 /\ c <= 10

\* mutant: the field is declared `category: str`, any string is accepted
CategoryUnchecked(c) == TRUE

\* pydantic's check of category: EmailCategory: the value is an enum value
CategoryIsEnumValue(c) == c \in EmailCategory

\* EmailResponse.content: max_length
CONTENT_MAX_LENGTH == 2000


\* EmailResponse(content=..., tone=..., suggested_actions=..., confidence=...):
\* content is at most max_length characters, confidence lies in [0,1]
ResponseIsValid(content, confidence) ==
    content.len <= CONTENT_MAX_LENGTH /\ ConfidenceInRange(confidence)

-----------------------------------------------------------------------------
(* A parsed JSON object is a record whose fields are <<>> when the key is   *)
(* absent and <<v>> when the key is present with value v.                   *)

Has(field) == field # <<>>

\* dict.get(key, default)
Get(field, default) == IF Has(field) THEN field[1] ELSE default

-----------------------------------------------------------------------------
(* src/src/ai/text_analyzer.py *)

positive_keywords == {
    <<"t","h","a","n","k">>,
    <<"g","r","e","a","t">>,
    <<"e","x","c","e","l","l","e","n","t">>,
    <<"w","o","n","d","e","r","f","u","l">>,
    <<"a","m","a","z","i","n","g">>,
    <<"l","o","v","e">>,
    <<"p","e","r","f","e","c","t">>,
    <<"s","a","t","i","s","f","i","e","d">>,
    <<"h","a","p","p","y">>,
    <<"p","l","e","a","s","e","d">>}

negative_keywords == {
    <<"t","e","r","r","i","b","l","e">>,
    <<"a","w","f","u","l">>,
    <<"b","a","d">>,
    <<"h","o","r","r","i","b","l","e">>,
    <<"d","i","s","a","p","p","o","i","n","t","e","d">>,
    <<"a","n","g","r","y">>,
    <<"f","r","u","s","t","r","a","t","e","d">>,
    <<"u","p","s","e","t">>,
    <<"u","n","h","a","p","p","y">>,
    <<"h","a","t","e">>,
    <<"w","o","r","s","t">>}

\* mutant: the keywords are looked for in the text as it is written
analyze_sentiment_case_sensitive(text) ==
    LET positive_count == Cardinality({w \in positive_keywords : Contains(text, w)})
        negative_count == Cardinality({w \in negative_keywords : Contains(text, w)})
    IN  IF positive_count > negative_count THEN "positive"
        ELSE IF negative_count > positive_count THEN "negative"
        ELSE "neutral"

\* TextAnalyzer.analyze_sentiment
analyze_sentiment(text) ==
    LET text_lower == Lower(text)
        positive_count == Cardinality({w \in positive_keywords : Contains(text_lower, w)})
        negative_count == Cardinality({w \in negative_keywords : Contains(text_lower, w)})
    IN  IF positive_count > negative_count THEN "positive"
        ELSE IF negative_count > positive_count THEN "negative"
        ELSE "neutral"

-----------------------------------------------------------------------------
(* src/src/core/email_processor.py *)

urgent_keywords == {
    <<"u","r","g","e","n","t">>,
    <<"e","m","e","r","g","e","n","c","y">>,
    <<"c","r","i","t","i","c","a","l">>,
    <<"a","s","a","p">>,
    <<"i","m","m","e","d","i","a","t","e","l","y">>,
    <<"b","r","o","k","e","n">>,
    <<"d","o","w","n">>,
    <<"n","o","t"," ","w","o","r","k","i","n","g">>,
    <<"e","r","r","o","r">>,
    <<"f","a","i","l","e","d">>}

\* any(keyword in content_lower for keyword in urgent_keywords)
HasUrgentKeyword(content_lower) ==
    \E keyword \in urgent_keywords : Contains(content_lower, keyword)

\* mutant: the keywords are searched without .lower()
determine_priority_case_sensitive(em, ai_classification) ==
    LET content == em.subject \o <<" ">> \o em.body
        category == Get(ai_classification.category, "None")
    IN  IF HasUrgentKeyword(content) THEN "urgent"
        ELSE IF category = "complaint" THEN "high"
        ELSE IF category \in {"technical", "billing"} THEN "medium"
        ELSE "low"

\* mutant: a priority reported by the completion service is taken over
determine_priority_from_reply(em, ai_classification) ==
    LET content_lower == Lower(em.subject \o <<" ">> \o em.body)
        category == Get(ai_classification.category, "None")
    IN  IF HasUrgentKeyword(content_lower) THEN "urgent"
        ELSE IF Has(ai_classification.priority) THEN ai_classification.priority[1]
        ELSE IF category = "complaint" THEN "high"
        ELSE IF category \in {"technical", "billing"} THEN "medium"
        ELSE "low"

\* EmailProcessor._determine_priority(email, ai_classification)
determine_priority(em, ai_classification) ==
    LET content_lower == Lower(em.subject \o <<" ">> \o em.body)
        category == Get(ai_classification.category, "None")
    IN  IF HasUrgentKeyword(content_lower) THEN "urgent"
        ELSE IF category = "complaint" THEN "high"
        ELSE IF category \in {"technical", "billing"} THEN "medium"
        ELSE "low"

\* content = f"Subject: {email.subject}\n\nBody: {email.body}"
ClassifyContent(em) ==
    <<"S","u","b","j","e","c","t",":"," ">> \o em.subject
    \o <<"\n","\n">> \o <<"B","o","d","y",":"," ">> \o em.body

\* LLMClient.classify_email(content): the completion call, then json.loads.
\* A failed call and an unparseable text both raise.
llm_classify_email(reply) ==
    IF reply.kind = "object"
    THEN [raised |-> FALSE, value |-> reply]
    ELSE [raised |-> TRUE, value |-> reply]

\* EmailProcessor.classify_email(email), given the completion service's reply:
\* the EmailClassification it returns, or NoValue when it raises
classify_email(em, reply) ==
    LET ai == llm_classify_email(reply)
    IN  IF ai.raised THEN NoValue
        ELSE
          LET ai_classification == ai.value
              sentiment == analyze_sentiment(ClassifyContent(em))
              prio == determine_priority(em, ai_classification)
          IN  IF ~Has(ai_classification.category) THEN NoValue          \* KeyError
              ELSE IF ~Has(ai_classification.confidence) THEN NoValue   \* KeyError
              ELSE IF ~CategoryIsEnumValue(ai_classification.category[1])
                      \/ ~ConfidenceInRange(ai_classification.confidence[1])
                   THEN NoValue                                         \* ValidationError
              ELSE [category    |-> ai_classification.category[1],
                    subcategory |-> ai_classification.subcategory,
                    priority    |-> prio,
                    sentiment   |-> sentiment,
                    confidence  |-> ai_classification.confidence[1]]

-----------------------------------------------------------------------------
(* src/src/ai/llm_client.py *)

\* response_data.get("confidence", 0.8), in tenths
DEFAULT_RESPONSE_CONFIDENCE == 8

\* mutant: tone is read with .get("tone", "professional")
generate_response_default_tone(reply) ==
    IF reply.kind # "object" THEN NoValue
    ELSE IF ~Has(reply.content) THEN NoValue
    ELSE
      LET content == reply.content[1]
          suggested_actions == Get(reply.suggested_actions, <<>>)
          confidence == Get(reply.confidence, DEFAULT_RESPONSE_CONFIDENCE)
      IN  IF ~ResponseIsValid(content, confidence) THEN NoValue
          ELSE [content           |-> content,
                tone              |-> Get(reply.tone, "professional"),
                suggested_actions |-> suggested_actions,
                confidence        |-> confidence]

\* LLMClient.generate_response(email, classification), given the completion
\* service's reply: the EmailResponse it returns, or NoValue when it raises
generate_response(reply) ==
    IF reply.kind # "object" THEN NoValue                \* call failed / json.loads failed
    ELSE IF ~Has(reply.content) THEN NoValue             \* KeyError
    ELSE IF ~Has(reply.tone) THEN NoValue                \* KeyError
    ELSE
      LET content == reply.content[1]
          suggested_actions == Get(reply.suggested_actions, <<>>)
          confidence == Get(reply.confidence, DEFAULT_RESPONSE_CONFIDENCE)
      IN  IF ~ResponseIsValid(content, confidence) THEN NoValue   \* ValidationError
          ELSE [content           |-> content,
                tone              |-> reply.tone[1],
                suggested_actions |-> suggested_actions,
                confidence        |-> confidence]

-----------------------------------------------------------------------------
(* Inputs *)

Fragments == {
    <<"U","R","G","E","N","T">>,
    <<"n","o","t">>,
    <<"w","o","r","k","i","n","g">>}

RECURSIVE TextsOfFrags(_)
TextsOfFrags(n) ==
    IF n = 0 THEN {<<>>}
    ELSE LET shorter == TextsOfFrags(n - 1)
         IN  shorter \cup {t \o f : t \in shorter, f \in Fragments}

Emails == [subject : TextsOfFrags(MaxFrags), body : TextsOfFrags(MaxFrags)]

Opt(S) == {<<>>} \cup {<<v>> : v \in S}

\* subject: str = Field(..., max_length=200)
SUBJECT_MAX_LENGTH == 200

\* body: str = Field(..., max_length=10000)
BODY_MAX_LENGTH == 10000

\* the number of positions of text s that hold the character c
CountChar(s, c) == Cardinality({i \in 1..Len(s) : s[i] = c})

\* sender: EmailStr -- one "@", a local part before it, and after it a domain
\* with a dot that is neither its first nor its last character
IsEmailStr(s) ==
    /\ CountChar(s, "@") = 1
    /\ LET at == CHOOSE i \in 1..Len(s) : s[i] = "@"
       IN  /\ at > 1
           /\ at < Len(s)
           /\ s[at + 1] # "."
           /\ s[Len(s)] # "."
           /\ \E i \in (at + 1)..Len(s) : s[i] = "."
    /\ \A i \in 1..Len(s) : s[i] \notin Whitespace

\* mutant: the length of the subject is not checked
EmailRequestSubjectUnchecked(em) ==
    /\ Len(em.body) <= BODY_MAX_LENGTH
    /\ Has(em.sender)
    /\ IsEmailStr(em.sender[1])

\* FastAPI validates the body of POST /process against EmailRequest before the
\* handler is called
EmailRequestIsValid(em) ==
    /\ Len(em.subject) <= SUBJECT_MAX_LENGTH
    /\ Len(em.body) <= BODY_MAX_LENGTH
    /\ Has(em.sender)
    /\ IsEmailStr(em.sender[1])

ValidSender == <<"a","@","b",".","i","o">>

\* the request bodies a client can post: the well-formed ones, and one for each
\* way of breaking a constraint of EmailRequest
Requests ==
    {[subject |-> e.subject, body |-> e.body, sender |-> <<ValidSender>>] : e \in Emails}
    \cup
    {[subject |-> Rep("s", SUBJECT_MAX_LENGTH), body |-> <<>>, sender |-> <<ValidSender>>],
     [subject |-> Rep("s", SUBJECT_MAX_LENGTH + 1), body |-> <<>>, sender |-> <<ValidSender>>],
     [subject |-> <<>>, body |-> Rep("b", BODY_MAX_LENGTH + 1), sender |-> <<ValidSender>>],
     [subject |-> <<>>, body |-> <<>>, sender |-> <<>>],
     [subject |-> <<>>, body |-> <<>>, sender |-> <<<<"n","o","b","o","d","y">>>>]}

NoReply == [kind |-> "none"]

\* what the completion service can answer to the classification prompt
ClassifyReplies ==
    {[kind |-> k, category |-> <<>>, subcategory |-> <<>>, confidence |-> <<>>,
      priority |-> <<>>] : k \in {"error", "malformed"}}
    \cup
    [kind        : {"object"},
     category    : Opt(EmailCategory \cup {"spam", "Complaint"}),
     subcategory : Opt({"account_access"}),
     confidence  : Opt({-1, 0, 10, 11}),
     priority    : Opt({"urgent"})]

ContentValues == {[text |-> "Thank you", len |-> 9],
                  [text |-> "essay", len |-> CONTENT_MAX_LENGTH + 1]}

\* what the completion service can answer to the response prompt
ResponseReplies ==
    {[kind |-> k, content |-> <<>>, tone |-> <<>>, suggested_actions |-> <<>>,
      confidence |-> <<>>] : k \in {"error", "malformed"}}
    \cup
    [kind              : {"object"},
     content           : Opt(ContentValues),
     tone              : Opt({"professional"}),
     suggested_actions : Opt({<<"Follow up">>}),
     confidence        : Opt({9, 11})]

-----------------------------------------------------------------------------
(* src/src/api/endpoints/emails.py: process_email *)

\* no call of the search engine has been made
NoOp ==
    [name |-> "none", email_id |-> 0, text |-> <<>>, limit |-> 0,
     category_filter |-> <<>>, date_from |-> <<>>, date_to |-> <<>>,
     embed_calls |-> 0, embed_failed |-> FALSE, backend_failed |-> FALSE,
     outcome |-> "none", ranked |-> <<>>, results |-> <<>>, before |-> {},
     after_add |-> <<>>, total_count |-> 0, api_status |-> 0, api_response |-> <<>>]

IndexIdle ==
    /\ index = {}
    /\ last_op = NoOp

AnalyzerIdle ==
    /\ ta_text = <<>>
    /\ ta_max_keywords = 0
    /\ ta_sentiment = "none"
    /\ ta_keywords = <<>>
    /\ ta_entities = <<>>
    /\ ta_language = "none"

SnippetIdle ==
    /\ sn_document = <<>>
    /\ sn_query = <<>>
    /\ sn_snippet = <<>>

ConcurrentIdle ==
    /\ requests = <<>>
    /\ database = {}

BatchIdle ==
    /\ b_function = "none"
    /\ b_rows = <<>>
    /\ b_pos = 0
    /\ b_categories = <<>>
    /\ b_pc = "idle"
    /\ b_column = <<>>

\* the components that the pipeline, the retrying classifier, the search
\* engine and the two analyzer functions above do not touch
OthersIdle == SnippetIdle /\ ConcurrentIdle /\ BatchIdle

RetryIdle ==
    /\ ec_subject = <<>>
    /\ ec_body = <<>>
    /\ retry_count = 0
    /\ ec_pc = "idle"
    /\ ec_result = <<>>
    /\ events = <<>>

\* mutant: the failure of a step is swallowed and the handler goes on
AfterStepIgnoringFailure(result, next) == next

\* the body of process_email is one try block: a step that raises leaves it for
\* the except clause, a step that returns is followed by the next statement
AfterStep(result, next) == IF result = NoValue THEN "done" ELSE next

Init ==
    /\ email \in Requests
    /\ pc = "validate"
    /\ ai_reply = NoReply
    /\ priority = "none"
    /\ classification = NoValue
    /\ resp_reply = NoReply
    /\ response = NoValue
    /\ stored = FALSE
    /\ http_status = 0
    /\ RetryIdle
    /\ IndexIdle
    /\ AnalyzerIdle
    /\ OthersIdle

\* email: EmailRequest -- a body that fails validation is answered with 422
\* and process_email is not called
ValidateRequest ==
    /\ pc = "validate"
    /\ IF EmailRequestIsValid(email)
       THEN pc' = "classify" /\ UNCHANGED http_status
       ELSE pc' = "done" /\ http_status' = 422
    /\ UNCHANGED <<email, ai_reply, priority, classification, resp_reply, response,
                   stored>>
    /\ UNCHANGED <<retryVars, indexVars, analyzerVars, snippetVars, concurrentVars,
                   batchVars>>

\* the task running process_email is cancelled while it waits for a completion:
\* asyncio.CancelledError is not an Exception, so `except Exception` lets it
\* through and the handler is left without running any later statement
CancelRequest ==
    /\ pc \in {"classify", "respond"}
    /\ pc' = "cancelled"
    /\ UNCHANGED <<email, ai_reply, priority, classification, resp_reply, response,
                   stored, http_status>>
    /\ UNCHANGED <<retryVars, indexVars, analyzerVars, snippetVars, concurrentVars,
                   batchVars>>

\* classification = await processor.classify_email(email)
ClassifyEmail ==
    /\ pc = "classify"
    /\ \E reply \in ClassifyReplies :
         LET result == classify_email(email, reply)
         IN  /\ ai_reply' = reply
             /\ priority' = IF llm_classify_email(reply).raised THEN "none"
                            ELSE determine_priority(email, reply)
             /\ classification' = result
             /\ pc' = AfterStep(result, "respond")
             /\ IF result = NoValue
                THEN http_status' = 500     \* except: HTTPException(500)
                ELSE UNCHANGED http_status
    /\ UNCHANGED <<email, resp_reply, response, stored>>
    /\ UNCHANGED <<retryVars, indexVars, analyzerVars, snippetVars, concurrentVars,
                   batchVars>>

\* response = await llm_client.generate_response(email, classification)
\* (the frame of classify_email is gone: its locals are no longer in scope)
GenerateResponse ==
    /\ pc = "respond"
    /\ \E reply \in ResponseReplies :
         LET result == generate_response(reply)
         IN  /\ resp_reply' = reply
             /\ response' = result
             /\ pc' = AfterStep(result, "store")
             /\ IF result = NoValue
                THEN http_status' = 500
                ELSE UNCHANGED http_status
    /\ ai_reply' = NoReply
    /\ priority' = "none"
    /\ UNCHANGED <<email, classification, stored>>
    /\ UNCHANGED <<retryVars, indexVars, analyzerVars, snippetVars, concurrentVars,
                   batchVars>>

\* await processor.store_email(email_id, email, result); return result
StoreEmail ==
    /\ pc = "store"
    /\ \E ok \in BOOLEAN :
         /\ stored' = ok
         /\ http_status' = IF ok THEN 200 ELSE 500
    /\ pc' = "done"
    /\ UNCHANGED <<email, ai_reply, priority, classification, resp_reply, response>>
    /\ UNCHANGED <<retryVars, indexVars, analyzerVars, snippetVars, concurrentVars,
                   batchVars>>

Next ==
    \/ ValidateRequest
    \/ ClassifyEmail
    \/ GenerateResponse
    \/ StoreEmail
    \/ CancelRequest

Spec == Init /\ [][Next]_vars

-----------------------------------------------------------------------------
(* src/enhanced_email_classifier.py *)

VALID_CATEGORIES == {<<"o","r","d","e","r">>, <<"i","n","q","u","i","r","y">>, <<"o","t","h","e","r">>}

DEFAULT_CATEGORY == <<"o","t","h","e","r">>

MAX_RETRIES == 3

\* seconds
RETRY_DELAY == 1

max_subject_length == 200

max_body_length == 2000

\* mutant: the text is cut at its end, one character and the room of the
\* marker, instead of at the limit
TruncateFromEnd(text, limit) ==
    IF Len(text) > limit
    THEN SubSeq(text, 1, Len(text) - 4) \o <<".", ".", ".">> ELSE text

\* text[:limit] + "..." when len(text) > limit
Truncate(text, limit) ==
    IF Len(text) > limit THEN SubSeq(text, 1, limit) \o <<".", ".", ".">> ELSE text

\* mutant: the category is returned without the membership test
ValidateCategoryUnchecked(content) == Lower(Strip(content))

\* category = response.choices[0].message.content.strip().lower()
\* if category not in Config.VALID_CATEGORIES: return Config.DEFAULT_CATEGORY
ValidateCategory(content) ==
    LET category == Lower(Strip(content))
    IN  IF category \notin VALID_CATEGORIES THEN DEFAULT_CATEGORY ELSE category

\* mutant: the budget is one attempt short
AfterFailureGivesUpEarly(rc) ==
    IF rc < MAX_RETRIES - 2 THEN "sleep" ELSE "done"

\* mutant: the comparison is <= instead of <
AfterFailureOneMore(rc) ==
    IF rc <= MAX_RETRIES - 1 THEN "sleep" ELSE "done"

\* mutant: the retry is not bounded
AfterFailureAlwaysRetry(rc) == "sleep"

\* the except branch: retry after the delay, or give up
AfterFailure(rc) ==
    IF rc < MAX_RETRIES - 1 THEN "sleep" ELSE "done"

\* outcomes of one completion call: the call raises; the call returns a reply
\* that cannot be read (its content is None, so .strip() raises inside the try
\* block, which handles it like a failed call); the call returns a text
ReplyTexts == {
    <<"o","r","d","e","r">>,
    <<" ","O","r","d","e","r","\n">>,
    <<"i","n","q","u","i","r","y">>,
    <<"o","t","h","e","r">>,
    <<"s","p","a","m">>,
    <<>>}

CallOutcomes ==
    {[kind |-> k, text |-> <<>>] : k \in {"raise", "unreadable"}}
    \cup [kind : {"text"}, text : ReplyTexts]

Subjects == {Rep("s", 3), Rep("s", max_subject_length),
             Rep("s", max_subject_length + 1), Rep("s", max_subject_length + 4)}

Bodies == {Rep("b", 5), Rep("b", max_body_length), Rep("b", max_body_length + 1)}

PipelineIdle ==
    /\ email = [subject |-> <<>>, body |-> <<>>, sender |-> <<>>]
    /\ pc = "idle"
    /\ ai_reply = NoReply
    /\ priority = "none"
    /\ classification = NoValue
    /\ resp_reply = NoReply
    /\ response = NoValue
    /\ stored = FALSE
    /\ http_status = 0

\* classify_email(client, subject, body) is called with retry_count = 0
RetryInit ==
    /\ ec_subject \in Subjects
    /\ ec_body \in Bodies
    /\ retry_count = 0
    /\ ec_pc = "call"
    /\ ec_result = <<>>
    /\ events = <<>>
    /\ PipelineIdle
    /\ IndexIdle
    /\ AnalyzerIdle
    /\ OthersIdle

\* one invocation of classify_email up to its return or to time.sleep:
\* truncation, the prompt, the completion call and the handling of its outcome
CompletionCall ==
    /\ ec_pc = "call"
    /\ \E outcome \in CallOutcomes :
         LET subject == Truncate(ec_subject, max_subject_length)
             body == Truncate(ec_body, max_body_length)
         IN  /\ ec_subject' = subject
             /\ ec_body' = body
             /\ events' = Append(events, [type |-> "call", kind |-> outcome.kind,
                                          text |-> outcome.text,
                                          prompt |-> <<subject, body>>,
                                          delay |-> 0])
             /\ IF outcome.kind = "text"
                THEN /\ ec_result' = <<ValidateCategory(outcome.text)>>
                     /\ ec_pc' = "done"
                ELSE /\ ec_pc' = AfterFailure(retry_count)
                     /\ ec_result' = IF AfterFailure(retry_count) = "done"
                                     THEN <<DEFAULT_CATEGORY>> ELSE <<>>
    /\ UNCHANGED retry_count
    /\ UNCHANGED <<pipelineVars, indexVars, analyzerVars, snippetVars, concurrentVars,
                   batchVars>>

\* time.sleep(Config.RETRY_DELAY); return classify_email(client, subject, body, retry_count + 1)
RetryAfterDelay ==
    /\ ec_pc = "sleep"
    /\ events' = Append(events, [type |-> "sleep", kind |-> "slept", text |-> <<>>,
                                 prompt |-> <<>>, delay |-> RETRY_DELAY])
    /\ retry_count' = retry_count + 1
    /\ ec_pc' = "call"
    /\ UNCHANGED <<ec_subject, ec_body, ec_result>>
    /\ UNCHANGED <<pipelineVars, indexVars, analyzerVars, snippetVars, concurrentVars,
                   batchVars>>

RetryNext == CompletionCall \/ RetryAfterDelay

RetrySpec == RetryInit /\ [][RetryNext]_vars

-----------------------------------------------------------------------------
(* Claims about EmailProcessor.classify_email and _determine_priority *)

\* the claims' own reading of "keyword occurs case-insensitively in text"
OccursIn(text, keyword) == Contains(Lower(text), keyword)

UrgentKeywordInSubjectOrBody ==
    \E keyword \in urgent_keywords :
        OccursIn(email.subject, keyword) \/ OccursIn(email.body, keyword)

\* the category-only rule of the priority
CategoryPriority(c) ==
    IF c = "complaint" THEN "high"
    ELSE IF c \in {"technical", "billing"} THEN "medium"
    ELSE "low"

\* C1: whenever classify_email returns a Classification its category is one
\* of the seven declared enum values; an unrecognized category sent by the
\* completion service never appears in a returned Classification.
C1_CategoryIsDeclared ==
    /\ classification # NoValue =>
         classification.category \in {"support", "complaint", "inquiry", "order",
                                      "billing", "technical", "general"}
    /\ (/\ ai_reply.kind = "object"
        /\ Has(ai_reply.category)
        /\ ai_reply.category[1] \notin EmailCategory) => classification = NoValue

C1_Witness ==
    /\ pc = "respond"
    /\ ai_reply.kind = "object"
    /\ classification # NoValue
    /\ classification.category = "billing"

\* C2 (as claimed): when the completion service answers with a category that
\* is no enum value, classify_email does not raise and returns a
\* Classification whose category is the default category.
C2_UnrecognizedCategoryGivesDefault ==
    (/\ ai_reply.kind = "object"
     /\ Has(ai_reply.category)
     /\ ai_reply.category[1] \notin EmailCategory
     /\ Has(ai_reply.confidence)
     /\ ConfidenceInRange(ai_reply.confidence[1]))
    => (classification # NoValue /\ classification.category = "general")

\* C3 (as claimed): for every confidence the completion service reports,
\* also below 0 or above 1, classify_email returns a Classification whose
\* confidence lies in [0,1].
C3_ConfidenceClamped ==
    (/\ ai_reply.kind = "object"
     /\ Has(ai_reply.category)
     /\ ai_reply.category[1] \in EmailCategory
     /\ Has(ai_reply.confidence))
    => (classification # NoValue /\ ConfidenceInRange(classification.confidence))

\* C4: an urgent keyword occurring (case-insensitively) in the subject or in
\* the body makes the priority URGENT, whatever category the service returns.
C4_UrgentKeywordGivesUrgent ==
    UrgentKeywordInSubjectOrBody =>
        /\ priority # "none" => priority = "urgent"
        /\ classification # NoValue => classification.priority = "urgent"

C4_Witness ==
    /\ \E keyword \in urgent_keywords : OccursIn(email.subject, keyword)
    /\ ~ \E keyword \in urgent_keywords : OccursIn(email.body, keyword)
    /\ ai_reply.kind = "object"
    /\ ai_reply.category = <<"complaint">>
    /\ classification # NoValue
    /\ classification.priority = "urgent"

\* C5: when no urgent keyword occurs in the combined subject and body, the
\* priority is decided by the category alone (complaint: HIGH; technical or
\* billing: MEDIUM; anything else: LOW), whatever else the reply reports.
C5_PriorityFromCategoryAlone ==
    ~HasUrgentKeyword(Lower(email.subject \o <<" ">> \o email.body)) =>
        /\ priority # "none" =>
             priority = CategoryPriority(Get(ai_reply.category, "None"))
        /\ classification # NoValue =>
             classification.priority = CategoryPriority(classification.category)

C5_Witness ==
    /\ ~HasUrgentKeyword(Lower(email.subject \o <<" ">> \o email.body))
    /\ ai_reply.kind = "object"
    /\ ai_reply.priority = <<"urgent">>
    /\ classification # NoValue
    /\ classification.category = "complaint"
    /\ classification.priority = "high"

\* C9 (as claimed): when the completion call fails, classify_email still
\* returns a Classification carrying the default category.
C9_UnavailableGivesDefault ==
    ai_reply.kind = "error"
    => (classification # NoValue /\ classification.category = "general")

-----------------------------------------------------------------------------
(* Claims about LLMClient.generate_response *)

-----------------------------------------------------------------------------
(* Claims about classify_email of enhanced_email_classifier *)

IsCall(e) == e.type = "call"

Calls == SelectSeq(events, IsCall)

Failed(e) == e.kind \in {"raise", "unreadable"}

\* C6: two failed completion calls followed by a call that returns a valid
\* category: classify_email returns that category, after exactly 3 calls.
C6_ThirdCallSucceeds ==
    LET calls == Calls
    IN  /\ (Len(calls) = 2 /\ Failed(calls[1]) /\ Failed(calls[2])) => ec_pc # "done"
        /\ (/\ Len(calls) >= 3
            /\ Failed(calls[1]) /\ Failed(calls[2])
            /\ calls[3].kind = "text"
            /\ Lower(Strip(calls[3].text)) \in VALID_CATEGORIES)
           => /\ ec_pc = "done"
              /\ ec_result = <<Lower(Strip(calls[3].text))>>
              /\ Len(calls) = 3

C6_Witness ==
    LET calls == Calls
    IN  /\ ec_pc = "done"
        /\ Len(calls) = 3
        /\ Failed(calls[1]) /\ Failed(calls[2])
        /\ calls[3].text = <<" ","O","r","d","e","r","\n">>
        /\ ec_result = << <<"o","r","d","e","r">> >>

\* C7: when every completion call fails, classify_email returns the default
\* category once the retry budget is used up, and returns rather than raises.
C7_ExhaustionGivesDefault ==
    LET calls == Calls
        allFailed == \A i \in 1..Len(calls) : Failed(calls[i])
    IN  /\ (allFailed /\ ec_pc = "done")
           => (ec_result = <<DEFAULT_CATEGORY>> /\ Len(calls) = MAX_RETRIES)
        /\ (allFailed /\ Len(calls) = MAX_RETRIES) => ec_pc = "done"
        /\ ec_pc = "done" => ec_result # <<>>

C7_Witness ==
    LET calls == Calls
    IN  /\ ec_pc = "done"
        /\ Len(calls) = 3
        /\ \A i \in 1..Len(calls) : Failed(calls[i])
        /\ ec_result = << <<"o","t","h","e","r">> >>

\* C8: classify_email ends after at most 3 completion calls, issues no call
\* after a call that succeeded, and sleeps the 1-second delay exactly once
\* between two consecutive attempts and never after the last one.
C8_BoundedRetry ==
    /\ Len(Calls) <= 3
    /\ \A i \in 1..Len(events) :
         /\ events[i].type = (IF i % 2 = 1 THEN "call" ELSE "sleep")
         /\ events[i].type = "sleep" => events[i].delay = 1
         /\ (events[i].type = "call" /\ events[i].kind = "text") => i = Len(events)
    /\ ec_pc = "done" => (events # <<>> /\ events[Len(events)].type = "call")
    /\ ec_pc = "sleep" => (events # <<>> /\ Len(Calls) < 3)
    /\ ec_pc # "done" => ENABLED RetryNext

C8_Witness ==
    /\ ec_pc = "done"
    /\ Len(events) = 3
    /\ Failed(events[1])
    /\ events[2].type = "sleep"
    /\ events[3].kind = "text"

-----------------------------------------------------------------------------
(* process_email: order of the steps *)

\* C11: the response completion call is issued only after classification has
\* returned a classification, the store step is reached only after both
\* classification and response generation have returned their values, and a
\* request one of whose steps failed or was cancelled stores nothing.
C11_StepsInOrder ==
    /\ resp_reply # NoReply => classification # NoValue
    /\ pc = "store" => classification # NoValue /\ response # NoValue
    /\ stored => classification # NoValue /\ response # NoValue
    /\ pc = "cancelled" => ~stored
    /\ (pc = "done" /\ (classification = NoValue \/ response = NoValue)) => ~stored

\* response generation failed after a successful classification: the request
\* is answered with 500 and nothing is stored
C11_Witness ==
    /\ pc = "done"
    /\ classification # NoValue
    /\ resp_reply # NoReply
    /\ response = NoValue
    /\ ~stored
    /\ http_status = 500

\* C18: a request whose subject is longer than 200 characters, whose body is
\* longer than 10000 characters or that has no sender is answered with a
\* validation error (422) and nothing else happens for it: no completion call,
\* no classification, no response, no store, and no further step.
C18_InvalidRequestRejected ==
    (\/ Len(email.subject) > SUBJECT_MAX_LENGTH
     \/ Len(email.body) > BODY_MAX_LENGTH
     \/ email.sender = <<>>)
    => /\ pc \in {"validate", "done"}
       /\ ai_reply = NoReply
       /\ resp_reply = NoReply
       /\ classification = NoValue
       /\ response = NoValue
       /\ ~stored
       /\ pc = "done" => http_status = 422 /\ ~ENABLED Next

\* the request with a subject of 201 characters has been rejected
C18_Witness ==
    /\ Len(email.subject) = SUBJECT_MAX_LENGTH + 1
    /\ email.sender # <<>>
    /\ pc = "done"
    /\ http_status = 422

-----------------------------------------------------------------------------
(* src/src/ai/semantic_search.py: SemanticSearchEngine *)

\* the collection holds at most MaxEntries emails
MaxEntries == 2

\* the ids that emails are added under
EmailIds == 1..MaxEntries

RefundText == <<"r","e","f","u","n","d">>

RefundNowText == <<"r","e","f","u","n","d"," ","n","o","w">>

HelloText == <<"h","e","l","l","o">>

IndexTexts == {RefundText, RefundNowText, HelloText}

\* openai embeddings.create, when it answers: the same text always gets the
\* same vector.  A vector is a unit vector of the plane, given by its angle in
\* multiples of 60 degrees.
EmbeddingOf(text) ==
    CASE text = RefundText    -> 0
      [] text = RefundNowText -> 1
      [] OTHER                -> 3

\* the collection is created with "hnsw:space": "cosine": the distance of two
\* unit vectors is 1 - cos(angle between them), here in tenths
CosineDistance(a, b) ==
    LET diff  == IF a >= b THEN a - b ELSE b - a
        steps == IF diff > 3 THEN 6 - diff ELSE diff
    IN  CASE steps = 0 -> 0
          [] steps = 1 -> 5
          [] steps = 2 -> 15
          [] OTHER     -> 20

\* the emails a caller hands to add_email, each with its metadata dictionary;
\* timestamps are days.  The last one has a category outside EmailCategory.
IndexedEmails ==
    {[content  |-> RefundText,
      metadata |-> [subject |-> <<<<"R","e","f","u","n","d">>>>, category |-> <<"complaint">>,
                    timestamp |-> <<1>>]],
     [content  |-> RefundText,
      metadata |-> [subject |-> <<>>, category |-> <<>>, timestamp |-> <<2>>]],
     [content  |-> RefundNowText,
      metadata |-> [subject |-> <<>>, category |-> <<"complaint">>,
                    timestamp |-> <<2>>]],
     [content  |-> HelloText,
      metadata |-> [subject |-> <<>>, category |-> <<"complaint">>,
                    timestamp |-> <<1>>]],
     [content  |-> HelloText,
      metadata |-> [subject |-> <<>>, category |-> <<"spam">>, timestamp |-> <<1>>]]}

\* mutant: the entry is stored without the embedding of its content
NewEntryWithoutEmbedding(email_id, content, metadata, embedding) ==
    [id |-> email_id, document |-> content, embedding |-> 3, metadata |-> metadata]

\* collection.add(embeddings=[embedding], documents=[content],
\*                metadatas=[metadata], ids=[email_id])
NewEntry(email_id, content, metadata, embedding) ==
    [id |-> email_id, document |-> content, embedding |-> embedding,
     metadata |-> metadata]

IndexIds(idx) == {e.id : e \in idx}

\* mutant: the distance is taken for the score
SimilarityAsDistance(distance) == IF distance > 0 THEN distance ELSE 0

\* similarity_score = max(0.0, 1.0 - distance), in tenths
SimilarityScore(distance) == IF 10 - distance > 0 THEN 10 - distance ELSE 0

\* SearchResult(email_id=..., subject=metadata.get("subject", ""), ...,
\*   category=EmailCategory(metadata.get("category", "general")),
\*   timestamp=metadata.get("timestamp", "")): NoValue when the construction
\* raises (a category outside the enum, "" for a datetime, a score outside
\* [0, 1]).  The snippet is left out: it is computed from the document and the
\* query text alone and its computation does not raise.
SearchResultOf(r) ==
    LET category == Get(r.metadata.category, "general")
        score    == SimilarityScore(r.distance)
    IN  IF \/ category \notin EmailCategory
           \/ ~Has(r.metadata.timestamp)
           \/ score < 0
           \/ score > 10
        THEN NoValue
        ELSE [email_id |-> r.id, subject |-> Get(r.metadata.subject, <<>>),
              similarity_score |-> score, category |-> category,
              timestamp |-> r.metadata.timestamp[1]]

\* where={"category": value}: the entries whose metadata has that value
Matching(idx, where) ==
    IF where = <<>> THEN idx ELSE {e \in idx : e.metadata.category = where}

\* collection.query(query_embeddings=[q], n_results=n, where=...): the n nearest
\* of the matching entries (all of them when there are fewer), nearest first;
\* entries at the same distance come in any order
Rankings(S, q, n) ==
    LET k == IF n < Cardinality(S) THEN n ELSE Cardinality(S)
        d(e) == CosineDistance(q, e.embedding)
    IN  {[i \in 1..k |-> [id |-> f[i].id, document |-> f[i].document,
                          metadata |-> f[i].metadata, distance |-> d(f[i])]] :
           f \in {g \in [1..k -> S] :
                    /\ \A i, j \in 1..k : i < j => g[i] # g[j] /\ d(g[i]) <= d(g[j])
                    /\ \A e \in S : (\A i \in 1..k : g[i] # e) =>
                                      \A i \in 1..k : d(g[i]) <= d(e)}}

\* the SearchResult objects of a ranking; raised when one construction raises
Convert(ranked) ==
    IF \E i \in 1..Len(ranked) : SearchResultOf(ranked[i]) = NoValue
    THEN [raised |-> TRUE, results |-> <<>>]
    ELSE [raised |-> FALSE,
          results |-> [i \in 1..Len(ranked) |-> SearchResultOf(ranked[i])]]

\* mutant: the original email is kept among the neighbours
IncludeSelf(ranked, email_id) == ranked

\* if found_id != email_id: the neighbours other than the original email
ExcludeSelf(ranked, email_id) == SelectSeq(ranked, LAMBDA r : r.id # email_id)

\* search_results[:limit]
FirstResults(results, limit) ==
    SubSeq(results, 1, IF limit < Len(results) THEN limit ELSE Len(results))

\* mutant: an email whose embedding could not be computed is stored all the
\* same, with the zero angle
add_email_despite_failure(idx, email_id, content, metadata, embedding, add_ok) ==
    IF ~add_ok
    THEN [index |-> idx, outcome |-> "raised"]
    ELSE IF email_id \in IndexIds(idx)
    THEN [index |-> idx, outcome |-> "returned"]
    ELSE [index |-> idx \cup {NewEntry(email_id, content, metadata, Get(embedding, 0))},
          outcome |-> "returned"]

\* SemanticSearchEngine.add_email.  embedding is <<>> when _get_embedding
\* raised; add_ok is FALSE when collection.add raised.  An id the collection
\* already holds is not added again.
add_email(idx, email_id, content, metadata, embedding, add_ok) ==
    IF ~Has(embedding) \/ ~add_ok
    THEN [index |-> idx, outcome |-> "raised"]
    ELSE IF email_id \in IndexIds(idx)
    THEN [index |-> idx, outcome |-> "returned"]
    ELSE [index |-> idx \cup {NewEntry(email_id, content, metadata, embedding[1])},
          outcome |-> "returned"]

\* the values of limit that are tried
Limits == {1, 2}

\* date_from and date_to of a SearchQuery: no range, or day 2 to day 3
DateRanges == {<<<<>>, <<>>>>, <<<<2>>, <<3>>>>}

\* the texts that are searched for
QueryTexts == {RefundText, HelloText}

\* how a call of the embedding service and of the vector store can go
CallFates == {"ok", "embedding fails", "store fails"}

IndexInit ==
    /\ IndexIdle
    /\ PipelineIdle
    /\ RetryIdle
    /\ AnalyzerIdle
    /\ OthersIdle

\* what last_op keeps of a call of add_email or search: the embedding is
\* computed first, by one call of embeddings.create, then the store is called
OpOf(name, fate, outcome) ==
    [NoOp EXCEPT
     !.name = name,
     !.embed_calls = 1,
     !.embed_failed = (fate = "embedding fails"),
     !.backend_failed = (fate = "store fails"),
     !.outcome = outcome,
     !.before = index]

\* last_op keeps the arguments of a call that returned only; what a call that
\* raises does is the same for all arguments, so one email is tried for it
AddEmail ==
    /\ \E fate \in CallFates :
         \E email_id \in IF fate = "ok" THEN EmailIds ELSE {1},
            em \in IF fate = "ok" THEN IndexedEmails
                   ELSE {e \in IndexedEmails : e.metadata.timestamp = <<2>>
                                               /\ e.content = RefundText} :
           LET embedding == IF fate = "embedding fails" THEN <<>>
                            ELSE <<EmbeddingOf(em.content)>>
               r  == add_email(index, email_id, em.content, em.metadata, embedding,
                               fate # "store fails")
               op == OpOf("add_email", fate, r.outcome)
           IN  /\ Cardinality(r.index) <= MaxEntries
               /\ index' = r.index
               /\ last_op' = IF r.outcome = "raised" THEN op
                             ELSE [op EXCEPT !.email_id = email_id, !.text = em.content]
    /\ UNCHANGED <<pipelineVars, retryVars, analyzerVars, snippetVars, concurrentVars,
                   batchVars>>

\* history: the successful add_email of the same text that the search follows
\* immediately, with its id and whether that id was new to the collection
AfterAdd(text) ==
    IF last_op.name = "add_email" /\ last_op.outcome = "returned" /\ last_op.text = text
    THEN <<[email_id |-> last_op.email_id,
            fresh |-> last_op.email_id \notin IndexIds(last_op.before)]>>
    ELSE <<>>

\* what search returns: a dict with the keys "results" and "total_count"
SearchReturn(search_results) ==
    [kind |-> "dict", results |-> search_results,
     total_count |-> Len(search_results)]

\* what search_emails makes of a search that raised: HTTPException(500)
SearchError == [status |-> 500, response |-> <<>>]

\* search_emails, after `results = await search_engine.search(query)` returned:
\* the SearchResponse is built from results.results and results.total_count.
\* A dict has no attributes of those names, the AttributeError is caught by
\* `except Exception` and answered with HTTPException(500)
search_emails(text, results) ==
    IF results.kind = "dict" THEN SearchError
    ELSE [status |-> 200,
          response |-> <<[query |-> text, results |-> results.results,
                          total_count |-> results.total_count]>>]

Search ==
    /\ \E fate \in CallFates :
         IF fate # "ok"
         THEN last_op' = [OpOf("search", fate, "raised") EXCEPT
                          !.api_status = SearchError.status]
         ELSE \E text \in QueryTexts, limit \in Limits,
                 category_filter \in Opt({"complaint"}), dates \in DateRanges :
                \E ranked \in Rankings(Matching(index, category_filter),
                                       EmbeddingOf(text), limit) :
                   LET converted == Convert(ranked)
                       returned  == SearchReturn(converted.results)
                       answer    == search_emails(text, returned)
                   IN  last_op' = IF converted.raised
                                  THEN [OpOf("search", fate, "raised") EXCEPT
                                        !.api_status = SearchError.status]
                                  ELSE [OpOf("search", fate, "returned") EXCEPT
                                        !.total_count = returned.total_count,
                                        !.api_status = answer.status,
                                        !.api_response = answer.response,
                                        !.text = text,
                                        !.limit = limit,
                                        !.category_filter = category_filter,
                                        !.date_from = dates[1],
                                        !.date_to = dates[2],
                                        !.ranked = ranked,
                                        !.results = converted.results,
                                        !.after_add = AfterAdd(text)]
    /\ UNCHANGED index
    /\ UNCHANGED <<pipelineVars, retryVars, analyzerVars, snippetVars, concurrentVars,
                   batchVars>>

\* find_similar makes no embedding call: it reads the stored embedding
FindSimilar ==
    /\ \E email_id \in EmailIds, limit \in Limits, backend_ok \in BOOLEAN :
         LET op == [NoOp EXCEPT
                    !.name = "find_similar",
                    !.email_id = email_id,
                    !.limit = limit,
                    !.backend_failed = ~backend_ok,
                    !.outcome = "returned",
                    !.before = index]
         IN  IF ~backend_ok \/ email_id \notin IndexIds(index)
             THEN last_op' = op      \* except: return [] / if not result["ids"]: return []
             ELSE LET entry == CHOOSE e \in index : e.id = email_id
                  IN  \E ranked \in Rankings(index, entry.embedding, limit + 1) :
                        LET converted == Convert(ExcludeSelf(ranked, email_id))
                        IN  last_op' = [op EXCEPT
                                !.ranked = ranked,
                                !.results = FirstResults(converted.results, limit)]
    /\ UNCHANGED index
    /\ UNCHANGED <<pipelineVars, retryVars, analyzerVars, snippetVars, concurrentVars,
                   batchVars>>

IndexNext == AddEmail \/ Search \/ FindSimilar

IndexSpec == IndexInit /\ [][IndexNext]_vars

-----------------------------------------------------------------------------
(* SemanticSearchEngine: properties *)

SearchReturned == last_op.name = "search" /\ last_op.outcome = "returned"

\* C12: the list that search returns has one result for each entry the vector
\* store returned, in the same order, with the score max(0, 1 - d) of that
\* entry's distance d, and the scores never increase along the list.
C12_ResultsOrdered ==
    SearchReturned =>
        /\ Len(last_op.results) = Len(last_op.ranked)
        /\ \A i \in 1..Len(last_op.results) :
               /\ last_op.results[i].email_id = last_op.ranked[i].id
               /\ last_op.results[i].similarity_score =
                      (IF 10 - last_op.ranked[i].distance > 0
                       THEN 10 - last_op.ranked[i].distance ELSE 0)
        /\ \A i, j \in 1..Len(last_op.results) :
               i < j => last_op.results[i].similarity_score
                            >= last_op.results[j].similarity_score

\* a search returned an exact match (score 1.0) before an entry whose distance
\* is above 1 (score 0)
C12_Witness ==
    /\ SearchReturned
    /\ Len(last_op.results) = 2
    /\ last_op.results[1].similarity_score = 10
    /\ last_op.ranked[2].distance > 10
    /\ last_op.results[2].similarity_score = 0

\* the entries of the index other than the one find_similar was called for
OtherEntries == {e \in index : e.id # last_op.email_id}

NeighboursConverted ==
    /\ last_op.email_id \in IndexIds(index)
    /\ ~last_op.backend_failed
    /\ \A i \in 1..Len(last_op.ranked) :
           last_op.ranked[i].id # last_op.email_id =>
               SearchResultOf(last_op.ranked[i]) # NoValue

C14_ResultsSatisfyFilters ==
    SearchReturned =>
        \A i \in 1..Len(last_op.results) :
            LET r == last_op.results[i]
            IN  /\ Has(last_op.category_filter) => r.category = last_op.category_filter[1]
                /\ Has(last_op.date_from) => r.timestamp >= last_op.date_from[1]
                /\ Has(last_op.date_to) => r.timestamp <= last_op.date_to[1]

\* C15: when the vector store fails during find_similar, the call raises: it
\* does not return a list.
C15_BackendFailureIsError ==
    (last_op.name = "find_similar" /\ last_op.backend_failed) =>
        last_op.outcome = "raised"

\* C16: when the embedding call fails during add_email, the call raises after
\* that one embedding call, and the index is what it was before the call.
C16_FailedEmbeddingAddsNothing ==
    (last_op.name = "add_email" /\ last_op.embed_failed) =>
        /\ last_op.outcome = "raised"
        /\ last_op.embed_calls = 1
        /\ index = last_op.before

\* add_email failed on its embedding call with an email already in the index
C16_Witness ==
    /\ last_op.name = "add_email"
    /\ last_op.embed_failed
    /\ last_op.outcome = "raised"
    /\ last_op.before # {}
    /\ index = last_op.before

\* a search without filters returned, right after add_email succeeded for the
\* same text
SearchAfterAdd ==
    /\ SearchReturned
    /\ Has(last_op.after_add)
    /\ last_op.category_filter = <<>>
    /\ last_op.date_from = <<>>
    /\ last_op.date_to = <<>>

ReturnedIds == {last_op.results[i].email_id : i \in 1..Len(last_op.results)}

ExactMatches ==
    {e \in index : CosineDistance(EmbeddingOf(last_op.text), e.embedding) = 0}

-----------------------------------------------------------------------------
(* src/src/ai/text_analyzer.py: TextAnalyzer *)

\* a text handed to the analyzer is made of at most MaxWords words
MaxWords == 3

Digits == {"0", "1", "2", "3", "4", "5", "6", "7", "8", "9"}

\* [a-zA-Z]
IsLetter(c) == \E i \in DOMAIN LowerAlpha : c = LowerAlpha[i] \/ c = UpperAlpha[i]

\* \w: a letter, a digit or the underscore
IsWordChar(c) == IsLetter(c) \/ c \in Digits \/ c = "_"

\* the maximal runs of word characters of s from position i on, in order; cur
\* is the run that position i continues
RECURSIVE RunsFrom(_, _, _)
RunsFrom(s, i, cur) ==
    IF i > Len(s)
    THEN IF cur = <<>> THEN <<>> ELSE <<cur>>
    ELSE IF IsWordChar(s[i])
    THEN RunsFrom(s, i + 1, Append(cur, s[i]))
    ELSE (IF cur = <<>> THEN <<>> ELSE <<cur>>) \o RunsFrom(s, i + 1, <<>>)

\* re.findall(r'\b[a-zA-Z]{3,}\b', s): \b needs a word character on one side
\* only, so a match is a maximal run of word characters, and it has to be made
\* of at least three letters and of nothing else
FindWords(s) ==
    SelectSeq(RunsFrom(s, 1, <<>>),
              LAMBDA w : Len(w) >= 3 /\ \A i \in 1..Len(w) : IsLetter(w[i]))

stop_words ==
    {<<"t","h","e">>, <<"a">>, <<"a","n">>,
     <<"a","n","d">>, <<"o","r">>, <<"b","u","t">>,
     <<"i","n">>, <<"o","n">>, <<"a","t">>,
     <<"t","o">>, <<"f","o","r">>, <<"o","f">>,
     <<"w","i","t","h">>, <<"b","y">>, <<"f","r","o","m">>,
     <<"u","p">>, <<"a","b","o","u","t">>, <<"i","n","t","o">>,
     <<"t","h","r","o","u","g","h">>, <<"d","u","r","i","n","g">>, <<"b","e","f","o","r","e">>,
     <<"a","f","t","e","r">>, <<"a","b","o","v","e">>, <<"b","e","l","o","w">>,
     <<"b","e","t","w","e","e","n">>, <<"a","m","o","n","g">>, <<"i","s">>,
     <<"a","r","e">>, <<"w","a","s">>, <<"w","e","r","e">>,
     <<"b","e">>, <<"b","e","e","n">>, <<"b","e","i","n","g">>,
     <<"h","a","v","e">>, <<"h","a","s">>, <<"h","a","d">>,
     <<"d","o">>, <<"d","o","e","s">>, <<"d","i","d">>,
     <<"w","i","l","l">>, <<"w","o","u","l","d">>, <<"c","o","u","l","d">>,
     <<"s","h","o","u","l","d">>, <<"m","a","y">>, <<"m","i","g","h","t">>,
     <<"c","a","n">>, <<"a","m">>}

\* the keys of word_freq in the order of their insertion: each word at the
\* place of its first occurrence
RECURSIVE InsertionOrder(_)
InsertionOrder(words) ==
    IF words = <<>> THEN <<>>
    ELSE LET front == InsertionOrder(SubSeq(words, 1, Len(words) - 1))
             last  == words[Len(words)]
         IN  IF \E i \in 1..Len(front) : front[i] = last THEN front
             ELSE Append(front, last)

\* word_freq[word]
Frequency(words, w) == Cardinality({i \in 1..Len(words) : words[i] = w})

\* mutant: an item goes before the items of the same frequency
InsertBeforeTies(sorted, item) ==
    LET k == Cardinality({i \in 1..Len(sorted) : sorted[i].freq > item.freq})
    IN  SubSeq(sorted, 1, k) \o <<item>> \o SubSeq(sorted, k + 1, Len(sorted))

\* sorted(..., key=lambda x: x[1], reverse=True) is stable: an item goes after
\* the items before it that have the same or a higher frequency
InsertStable(sorted, item) ==
    LET k == Cardinality({i \in 1..Len(sorted) : sorted[i].freq >= item.freq})
    IN  SubSeq(sorted, 1, k) \o <<item>> \o SubSeq(sorted, k + 1, Len(sorted))

RECURSIVE SortByFrequency(_)
SortByFrequency(items) ==
    IF items = <<>> THEN <<>>
    ELSE InsertStable(SortByFrequency(SubSeq(items, 1, Len(items) - 1)),
                      items[Len(items)])

\* TextAnalyzer.extract_keywords
extract_keywords(text, max_keywords) ==
    LET text_lower == Lower(text)
        words      == SelectSeq(FindWords(text_lower), LAMBDA w : w \notin stop_words)
        keys       == InsertionOrder(words)
        items      == [i \in 1..Len(keys) |->
                          [word |-> keys[i], freq |-> Frequency(words, keys[i])]]
        keywords   == SortByFrequency(items)
        n          == IF max_keywords < Len(keywords) THEN max_keywords
                      ELSE Len(keywords)
    IN  [i \in 1..n |-> keywords[i].word]

\* the words texts are made of: keywords of both sentiments, one of them
\* capitalised, a stop word, a short word and a word with a digit
AnalyzerWords ==
    {<<"t","h","a","n","k">>, <<"G","r","e","a","t">>, <<"b","a","d">>, <<"t","h","e">>, <<"o","k">>, <<"b","a","d","1">>}

\* the texts of n words at most, the words separated by one space
RECURSIVE TextsOfWords(_)
TextsOfWords(n) ==
    IF n = 0 THEN {<<>>}
    ELSE LET shorter == TextsOfWords(n - 1)
         IN  shorter \cup AnalyzerWords
                     \cup {t \o <<" ">> \o w : t \in shorter \ {<<>>}, w \in AnalyzerWords}

\* the values of max_keywords that are tried; 10 is the default
MaxKeywordsValues == {1, 2, 10}

AnalyzerInit ==
    /\ ta_text \in TextsOfWords(MaxWords)
    /\ ta_max_keywords \in MaxKeywordsValues
    /\ ta_sentiment = "none"
    /\ ta_keywords = <<>>
    /\ ta_entities = <<>>
    /\ ta_language = "none"
    /\ PipelineIdle
    /\ RetryIdle
    /\ IndexIdle
    /\ OthersIdle

AnalyzeSentiment ==
    /\ ta_sentiment = "none"
    /\ ta_sentiment' = analyze_sentiment(ta_text)
    /\ UNCHANGED <<ta_text, ta_max_keywords, ta_keywords, ta_entities, ta_language>>
    /\ UNCHANGED <<pipelineVars, retryVars, indexVars, snippetVars, concurrentVars,
                   batchVars>>

ExtractKeywords ==
    /\ ta_keywords = <<>>
    /\ ta_keywords' = <<extract_keywords(ta_text, ta_max_keywords)>>
    /\ UNCHANGED <<ta_text, ta_max_keywords, ta_sentiment, ta_entities, ta_language>>
    /\ UNCHANGED <<pipelineVars, retryVars, indexVars, snippetVars, concurrentVars,
                   batchVars>>

AnalyzerNext == AnalyzeSentiment \/ ExtractKeywords

AnalyzerSpec == AnalyzerInit /\ [][AnalyzerNext]_vars

-----------------------------------------------------------------------------
(* TextAnalyzer: properties *)

\* the number of places of text where keyword begins
Occurrences(text, keyword) ==
    Cardinality({i \in 1..(Len(text) - Len(keyword) + 1) :
                    SubSeq(text, i, i + Len(keyword) - 1) = keyword})

\* the occurrences in text of all the keywords of a set together
RECURSIVE TotalOccurrences(_, _)
TotalOccurrences(text, keywords) ==
    IF keywords = {} THEN 0
    ELSE LET k == CHOOSE w \in keywords : TRUE
         IN  Occurrences(text, k) + TotalOccurrences(text, keywords \ {k})

\* the keywords of a set that occur in text at least once
KeywordsPresent(text, keywords) == {k \in keywords : Occurrences(text, k) > 0}

SentimentOf(positive_count, negative_count) ==
    IF positive_count > negative_count THEN "positive"
    ELSE IF negative_count > positive_count THEN "negative"
    ELSE "neutral"

\* C19 as stated: the sentiment of a text is decided by the number of
\* occurrences of positive keywords against the number of occurrences of
\* negative keywords in the lower-cased text, a tie giving neutral.
C19_CountsOccurrences ==
    ta_sentiment # "none" =>
        ta_sentiment = SentimentOf(TotalOccurrences(Lower(ta_text), positive_keywords),
                                   TotalOccurrences(Lower(ta_text), negative_keywords))

\* C19, amended: the sentiment of a text is decided by the number of positive
\* keywords that occur in the lower-cased text at least once against the number
\* of negative keywords that do, a tie giving neutral; it is a function of the
\* text alone.
C19_CountsKeywordsPresent ==
    ta_sentiment # "none" =>
        ta_sentiment =
            SentimentOf(Cardinality(KeywordsPresent(Lower(ta_text), positive_keywords)),
                        Cardinality(KeywordsPresent(Lower(ta_text), negative_keywords)))

\* a text with one positive keyword, capitalised and written twice, and one
\* negative keyword is neutral
C19_Witness ==
    /\ ta_sentiment = "neutral"
    /\ Occurrences(ta_text, <<"G","r","e","a","t">>) = 2
    /\ TotalOccurrences(Lower(ta_text), positive_keywords) = 2
    /\ TotalOccurrences(Lower(ta_text), negative_keywords) = 1

\* the words of the text that can be keywords, in the order of the text
Tokens == SelectSeq(FindWords(Lower(ta_text)), LAMBDA w : w \notin stop_words)

TokenFrequency(w) == Cardinality({i \in 1..Len(Tokens) : Tokens[i] = w})

FirstOccurrence(w) == CHOOSE i \in 1..Len(Tokens) : Tokens[i] = w /\ \A j \in 1..(i - 1) : Tokens[j] # w

\* C20: extract_keywords returns at most max_keywords words; each is a word of
\* the lower-cased text made of at least three lower-case letters and is not a
\* stop word; no word is returned twice; a word comes before the words of lower
\* frequency and before the words of the same frequency that first occur later
\* in the text; and no word left out is more frequent than a returned one.
C20_KeywordsByFrequency ==
    ta_keywords # <<>> =>
        LET kws == ta_keywords[1]
        IN  /\ Len(kws) <= ta_max_keywords
            /\ \A i \in 1..Len(kws) :
                   /\ TokenFrequency(kws[i]) > 0
                   /\ Len(kws[i]) >= 3
                   /\ \A c \in 1..Len(kws[i]) : \E a \in DOMAIN LowerAlpha : kws[i][c] = LowerAlpha[a]
                   /\ kws[i] \notin stop_words
            /\ \A i, j \in 1..Len(kws) :
                   i < j =>
                       \/ TokenFrequency(kws[i]) > TokenFrequency(kws[j])
                       \/ /\ TokenFrequency(kws[i]) = TokenFrequency(kws[j])
                          /\ FirstOccurrence(kws[i]) < FirstOccurrence(kws[j])
            /\ \A t \in 1..Len(Tokens) :
                   (\A i \in 1..Len(kws) : kws[i] # Tokens[t]) =>
                       \A i \in 1..Len(kws) :
                           TokenFrequency(Tokens[t]) <= TokenFrequency(kws[i])

\* two keywords were asked for and the text has three words of frequency one:
\* the two that occur first were returned, in the order of the text
C20_Witness ==
    /\ ta_keywords # <<>>
    /\ ta_max_keywords = 2
    /\ Len(ta_keywords[1]) = 2
    /\ TokenFrequency(ta_keywords[1][1]) = TokenFrequency(ta_keywords[1][2])
    /\ \E t \in 1..Len(Tokens) : \A i \in 1..2 : ta_keywords[1][i] # Tokens[t]

-----------------------------------------------------------------------------
(* src/src/ai/text_analyzer.py: extract_entities and detect_language *)

\* the character classes of the patterns: [A-Za-z0-9._%+-], [A-Za-z0-9.-],
\* [A-Z|a-z] (the bar is a member of the class), \d, [a-zA-Z0-9], \s and its
\* complement
CharIn(class, c) ==
    CASE class = "local"    -> IsLetter(c) \/ c \in Digits \/ c \in {".", "_", "%", "+", "-"}
      [] class = "domain"   -> IsLetter(c) \/ c \in Digits \/ c \in {".", "-"}
      [] class = "toplevel" -> IsLetter(c) \/ c = "|"
      [] class = "digit"    -> c \in Digits
      [] class = "alnum"    -> IsLetter(c) \/ c \in Digits
      [] class = "space"    -> c \in Whitespace
      [] class = "nonspace" -> c \notin Whitespace

\* \b before position i of s (i = Len(s) + 1 is the end): a word character on
\* exactly one side
Boundary(s, i) ==
    LET before == i - 1 >= 1 /\ i - 1 <= Len(s) /\ IsWordChar(s[i - 1])
        after  == i >= 1 /\ i <= Len(s) /\ IsWordChar(s[i])
    IN  before # after

\* the last position of the longest run of characters of a class that starts
\* at position i; i - 1 when s[i] is not of the class
RunEnd(s, i, class) ==
    LET stops == {k \in i..Len(s) : ~CharIn(class, s[k])}
    IN  IF stops = {} THEN Len(s)
        ELSE (CHOOSE k \in stops : \A m \in stops : k <= m) - 1

AllOf(s, from, to, class) ==
    /\ from >= 1
    /\ to <= Len(s)
    /\ \A k \in from..to : CharIn(class, s[k])

\* r'\b[A-Za-z0-9._%+-]+@[A-Za-z0-9.-]+\.[A-Z|a-z]{2,}\b' tried at position i:
\* the last position of the match, 0 when there is none.  The local part is the
\* whole run up to the "@"; of the ways to split what follows into domain, dot
\* and top level, the one with the longest domain, then the longest top level.
EmailEnd(s, i) ==
    IF ~(i <= Len(s) /\ CharIn("local", s[i]) /\ Boundary(s, i)) THEN 0
    ELSE LET l == RunEnd(s, i, "local")
         IN  IF ~(l + 1 <= Len(s) /\ s[l + 1] = "@") THEN 0
             ELSE LET dm    == RunEnd(s, l + 2, "domain")
                      Ends(p) == {q \in (p + 3)..RunEnd(s, p + 2, "toplevel") :
                                     Boundary(s, q + 1)}
                      splits == {p \in (l + 2)..dm :
                                    /\ p + 1 <= Len(s)
                                    /\ s[p + 1] = "."
                                    /\ Ends(p) # {}}
                  IN  IF splits = {} THEN 0
                      ELSE LET p == CHOOSE x \in splits : \A y \in splits : y <= x
                           IN  CHOOSE q \in Ends(p) : \A r \in Ends(p) : r <= q

\* r'\b\d{3}[-.]?\d{3}[-.]?\d{4}\b' tried at position i
PhoneEnd(s, i) ==
    LET Sep(k) == IF k <= Len(s) /\ s[k] \in {"-", "."} THEN k + 1 ELSE k
        second == Sep(i + 3)
        third  == Sep(second + 3)
    IN  IF /\ Boundary(s, i)
           /\ AllOf(s, i, i + 2, "digit")
           /\ AllOf(s, second, second + 2, "digit")
           /\ AllOf(s, third, third + 3, "digit")
           /\ Boundary(s, third + 4)
        THEN third + 3 ELSE 0

\* r'(?:order|#)\s*[-:]?\s*([a-zA-Z0-9]+)' with re.IGNORECASE tried at position
\* i: where the group starts and where it (and the match) ends; <<0, 0>> when
\* there is no match
OrderGroup(s, i) ==
    LET prefix == IF i <= Len(s) /\ s[i] = "#" THEN i
                  ELSE IF i + 4 <= Len(s)
                          /\ Lower(SubSeq(s, i, i + 4)) = <<"o", "r", "d", "e", "r">>
                  THEN i + 4 ELSE 0
        a1 == RunEnd(s, prefix + 1, "space") + 1
        a2 == IF a1 <= Len(s) /\ s[a1] \in {"-", ":"} THEN a1 + 1 ELSE a1
        a3 == RunEnd(s, a2, "space") + 1
        e  == RunEnd(s, a3, "alnum")
    IN  IF prefix = 0 \/ e < a3 THEN <<0, 0>> ELSE <<a3, e>>

\* r'\$\d+(?:\.\d{2})?' tried at position i
MoneyEnd(s, i) ==
    IF ~(i <= Len(s) /\ s[i] = "$") THEN 0
    ELSE LET d == RunEnd(s, i + 1, "digit")
         IN  IF d < i + 1 THEN 0
             ELSE IF d + 1 <= Len(s) /\ s[d + 1] = "." /\ AllOf(s, d + 2, d + 3, "digit")
             THEN d + 3 ELSE d

\* one pattern tried at position i: <<start of the string that findall
\* returns, end of the match>>, <<0, 0>> when there is no match
MatchAt(type, s, i) ==
    LET end == CASE type = "email" -> EmailEnd(s, i)
                 [] type = "phone" -> PhoneEnd(s, i)
                 [] type = "money" -> MoneyEnd(s, i)
                 [] type = "order_id" -> 0
    IN  IF type = "order_id" THEN OrderGroup(s, i)
        ELSE IF end = 0 THEN <<0, 0>> ELSE <<i, end>>

\* re.findall: the matches from left to right, each search starting where the
\* match before ended
RECURSIVE Matches(_, _, _)
Matches(type, s, i) ==
    IF i > Len(s) THEN <<>>
    ELSE LET match == MatchAt(type, s, i)
         IN  IF match = <<0, 0>> THEN Matches(type, s, i + 1)
             ELSE <<match>> \o Matches(type, s, match[2] + 1)

\* entities.append({"type": ..., "value": ...}) for each match of one pattern
EntitiesOf(type, s, matches) ==
    [k \in 1..Len(matches) |->
        [type |-> type, value |-> SubSeq(s, matches[k][1], matches[k][2])]]

\* the members of a list without the later copies of a member
RECURSIVE WithoutCopies(_)
WithoutCopies(list) ==
    IF list = <<>> THEN <<>>
    ELSE LET front == WithoutCopies(SubSeq(list, 1, Len(list) - 1))
             last  == list[Len(list)]
         IN  IF \E i \in 1..Len(front) : front[i] = last THEN front
             ELSE Append(front, last)

\* mutant: an entity that was already found is not added again
extract_entities_once(text) ==
    WithoutCopies(EntitiesOf("email", text, Matches("email", text, 1))
                  \o EntitiesOf("phone", text, Matches("phone", text, 1))
                  \o EntitiesOf("order_id", text, Matches("order_id", text, 1))
                  \o EntitiesOf("money", text, Matches("money", text, 1)))

\* TextAnalyzer.extract_entities
extract_entities(text) ==
    EntitiesOf("email", text, Matches("email", text, 1))
    \o EntitiesOf("phone", text, Matches("phone", text, 1))
    \o EntitiesOf("order_id", text, Matches("order_id", text, 1))
    \o EntitiesOf("money", text, Matches("money", text, 1))

\* the word lists of detect_language
spanish_words ==
    <<<<"e","l">>, <<"l","a">>, <<"e","s">>, <<"e","n">>, <<"d","e">>, <<"q","u","e">>, <<"p","o","r">>, <<"c","o","n">>>>

french_words ==
    <<<<"l","e">>, <<"l","a">>, <<"e","s","t">>, <<"e","n">>, <<"d","e">>, <<"q","u","e">>, <<"p","o","u","r">>, <<"a","v","e","c">>>>

german_words ==
    <<<<"d","e","r">>, <<"d","i","e">>, <<"i","s","t">>, <<"i","n">>, <<"v","o","n">>, <<"d","a","s","s">>, <<"f","ü","r">>, <<"m","i","t">>>>

\* sum(1 for word in words if word in text_lower)
WordCount(words, text_lower) ==
    Cardinality({i \in 1..Len(words) : Contains(text_lower, words[i])})

\* TextAnalyzer.detect_language
detect_language(text) ==
    LET text_lower    == Lower(text)
        spanish_count == WordCount(spanish_words, text_lower)
        french_count  == WordCount(french_words, text_lower)
        german_count  == WordCount(german_words, text_lower)
    IN  IF text = <<>> THEN "en"
        ELSE IF spanish_count > 2 THEN "es"
        ELSE IF french_count > 2 THEN "fr"
        ELSE IF german_count > 2 THEN "de"
        ELSE "en"

\* the number of phrases of a text that is analysed
MaxPhrases == 3

\* the phrases the analysed texts are made of: strings of the four entity
\* types, and words of the three word lists
Phrases ==
    {<<"a","@","b",".","i","o">>,
     <<"5","5","5","-","1","2","3","-","4","5","6","7">>,
     <<"#","1","2"," ","$","5">>,
     <<"l","a"," ","e","n"," ","d","e">>,
     <<"p","o","u","r"," ","a","v","e","c">>,
     <<"d","e","r"," ","d","i","e"," ","i","s","t">>}

\* the texts of n phrases at most, the phrases separated by one space
RECURSIVE TextsOfPhrases(_)
TextsOfPhrases(n) ==
    IF n = 0 THEN {<<>>}
    ELSE LET shorter == TextsOfPhrases(n - 1)
         IN  shorter \cup Phrases
                     \cup {t \o <<" ">> \o w : t \in shorter \ {<<>>}, w \in Phrases}

ExtractInit ==
    /\ ta_text \in TextsOfPhrases(MaxPhrases)
    /\ ta_max_keywords = 10
    /\ ta_sentiment = "none"
    /\ ta_keywords = <<>>
    /\ ta_entities = <<>>
    /\ ta_language = "none"
    /\ PipelineIdle
    /\ RetryIdle
    /\ IndexIdle
    /\ OthersIdle

ExtractEntities ==
    /\ ta_entities = <<>>
    /\ ta_entities' = <<extract_entities(ta_text)>>
    /\ UNCHANGED <<ta_text, ta_max_keywords, ta_sentiment, ta_keywords, ta_language>>
    /\ UNCHANGED <<pipelineVars, retryVars, indexVars, snippetVars, concurrentVars,
                   batchVars>>

DetectLanguage ==
    /\ ta_language = "none"
    /\ ta_language' = detect_language(ta_text)
    /\ UNCHANGED <<ta_text, ta_max_keywords, ta_sentiment, ta_keywords, ta_entities>>
    /\ UNCHANGED <<pipelineVars, retryVars, indexVars, snippetVars, concurrentVars,
                   batchVars>>

ExtractNext == ExtractEntities \/ DetectLanguage

ExtractSpec == ExtractInit /\ [][ExtractNext]_vars

-----------------------------------------------------------------------------
(* TextAnalyzer.extract_entities and detect_language: properties *)

\* the matches of one pattern with the place where the returned string starts
Located(type, s, matches) ==
    [k \in 1..Len(matches) |->
        [type |-> type, value |-> SubSeq(s, matches[k][1], matches[k][2]),
         start |-> matches[k][1]]]

\* every match of the four patterns in text
AllMatches(text) ==
    Located("email", text, Matches("email", text, 1))
    \o Located("phone", text, Matches("phone", text, 1))
    \o Located("order_id", text, Matches("order_id", text, 1))
    \o Located("money", text, Matches("money", text, 1))

\* a list of located matches ordered by the place where they start
RECURSIVE ByStart(_)
ByStart(list) ==
    IF list = <<>> THEN <<>>
    ELSE LET i == CHOOSE k \in 1..Len(list) :
                     \A m \in 1..Len(list) :
                        \/ list[k].start < list[m].start
                        \/ list[k].start = list[m].start /\ k <= m
             rest == [k \in 1..(Len(list) - 1) |-> IF k < i THEN list[k] ELSE list[k + 1]]
         IN  <<list[i]>> \o ByStart(rest)

WithoutStart(list) ==
    [k \in 1..Len(list) |-> [type |-> list[k].type, value |-> list[k].value]]

EntityTypes == <<"email", "phone", "order_id", "money">>

TypeRank(type) == CHOOSE k \in 1..Len(EntityTypes) : EntityTypes[k] = type

OfType(list, type) == SelectSeq(list, LAMBDA e : e.type = type)

\* C21: the entities that are returned are all the matches of the four
\* patterns, duplicates included, in the order in which the matched strings
\* occur in the text
C21_DocumentOrder ==
    ta_entities # <<>> =>
        ta_entities[1] = WithoutStart(ByStart(AllMatches(ta_text)))

\* C21 as amended: the entities are grouped by type, in the order email, phone,
\* order id, money; those of one type are all the matches of its pattern in the
\* order in which they occur in the text, duplicates included
C21_GroupedByType ==
    ta_entities # <<>> =>
        LET found == ta_entities[1]
        IN  /\ \A i, j \in 1..Len(found) :
                  i < j => TypeRank(found[i].type) <= TypeRank(found[j].type)
            /\ \A k \in 1..Len(EntityTypes) :
                  OfType(found, EntityTypes[k])
                      = OfType(WithoutStart(ByStart(AllMatches(ta_text))), EntityTypes[k])

\* entities were extracted from a text where a string of a later type stands
\* before a string of an earlier type, and where one string occurs twice
C21_Witness ==
    /\ ta_entities # <<>>
    /\ ta_entities[1] # WithoutStart(ByStart(AllMatches(ta_text)))
    /\ \E i, j \in 1..Len(ta_entities[1]) :
          i < j /\ ta_entities[1][i] = ta_entities[1][j]

\* the numbers of words of the three lists that occur in the text
LanguageCounts(text) ==
    [es |-> WordCount(spanish_words, Lower(text)),
     fr |-> WordCount(french_words, Lower(text)),
     de |-> WordCount(german_words, Lower(text))]

\* C22: the language that is returned is the one whose word list has the most
\* matches, when that language has more than 2 matches, and English when no
\* list has more than 2 matches
C22_MajorityVote ==
    ta_language # "none" =>
        LET count == LanguageCounts(ta_text)
        IN  IF \A l \in {"es", "fr", "de"} : count[l] <= 2
            THEN ta_language = "en"
            ELSE /\ ta_language \in {"es", "fr", "de"}
                 /\ count[ta_language] > 2
                 /\ \A l \in {"es", "fr", "de"} : count[l] <= count[ta_language]

-----------------------------------------------------------------------------
(* src/src/ai/semantic_search.py: _create_snippet *)

\* max_length: int = 200
DEFAULT_MAX_LENGTH == 200

\* str.split(): the runs of characters that are not whitespace
RECURSIVE Split(_, _)
Split(s, i) ==
    IF i > Len(s) THEN <<>>
    ELSE IF CharIn("space", s[i]) THEN Split(s, i + 1)
    ELSE <<SubSeq(s, i, RunEnd(s, i, "nonspace"))>>
         \o Split(s, RunEnd(s, i, "nonspace") + 1)

\* sum(1 for term in query_terms if term in snippet), for the window of
\* document_lower that starts at offset i (counted from 0)
WindowScore(document_lower, query_terms, i, max_length) ==
    LET last   == IF i + max_length <= Len(document_lower)
                  THEN i + max_length ELSE Len(document_lower)
        window == SubSeq(document_lower, i + 1, last)
    IN  Cardinality({k \in 1..Len(query_terms) : Contains(window, query_terms[k])})

\* mutant: a later window that scores as much replaces the best one
RECURSIVE BestWindowLast(_, _, _, _, _, _)
BestWindowLast(document_lower, query_terms, max_length, i, best_pos, best_score) ==
    IF i > Len(document_lower) - max_length THEN best_pos
    ELSE LET score == WindowScore(document_lower, query_terms, i, max_length)
         IN  IF score >= best_score
             THEN BestWindowLast(document_lower, query_terms, max_length, i + 1, i, score)
             ELSE BestWindowLast(document_lower, query_terms, max_length, i + 1,
                                 best_pos, best_score)

\* the loop over range(len(document) - max_length + 1) from offset i on:
\* best_pos when it ends
RECURSIVE BestWindow(_, _, _, _, _, _)
BestWindow(document_lower, query_terms, max_length, i, best_pos, best_score) ==
    IF i > Len(document_lower) - max_length THEN best_pos
    ELSE LET score == WindowScore(document_lower, query_terms, i, max_length)
         IN  IF score > best_score
             THEN BestWindow(document_lower, query_terms, max_length, i + 1, i, score)
             ELSE BestWindow(document_lower, query_terms, max_length, i + 1,
                             best_pos, best_score)

\* str.rfind(' '): the offset, counted from 0, of the last space; -1 when there
\* is none
RFindSpace(s) ==
    LET spaces == {k \in 1..Len(s) : s[k] = " "}
    IN  IF spaces = {} THEN -1
        ELSE (CHOOSE k \in spaces : \A m \in spaces : m <= k) - 1

Ellipsis == <<".", ".", ".">>

\* SemanticSearchEngine._create_snippet
create_snippet(document, query, max_length) ==
    LET query_terms    == Split(Lower(query), 1)
        document_lower == Lower(document)
        best_pos       == BestWindow(document_lower, query_terms, max_length, 0, 0, 0)
        last           == IF best_pos + max_length <= Len(document)
                          THEN best_pos + max_length ELSE Len(document)
        snippet        == SubSeq(document, best_pos + 1, last)
        last_space     == RFindSpace(snippet)
    IN  IF Len(snippet) = max_length /\ best_pos + max_length < Len(document)
        THEN IF 10 * last_space > 8 * max_length
             THEN SubSeq(snippet, 1, last_space) \o Ellipsis
             ELSE snippet \o Ellipsis
        ELSE snippet

\* the number of terms of a query
MaxTerms == 3

\* the terms the queries are made of
QueryTerms == {<<"R","e","f","u","n","d">>, <<"h","e","l","l","o">>}

\* the queries of n terms at most, the terms separated by one space
RECURSIVE QueriesOfTerms(_)
QueriesOfTerms(n) ==
    IF n = 0 THEN {<<>>}
    ELSE LET shorter == QueriesOfTerms(n - 1)
         IN  shorter \cup QueryTerms
                     \cup {t \o <<" ">> \o w : t \in shorter \ {<<>>}, w \in QueryTerms}

\* the documents: two of at most 200 characters, and longer ones made of a
\* beginning, a run of 170 or 200 characters without a space, and an end
SnippetDocuments ==
    {<<"r","e","f","u","n","d"," ","h","e","l","l","o">>, Rep("x", 200)}
    \cup {head \o Rep("x", n) \o tail :
            head \in {<<>>, <<"r","e","f","u","n","d"," ">>, <<"H","e","l","l","o"," ">>},
            n \in {170, 200},
            tail \in {<<>>, <<" ","R","E","F","U","N","D">>, <<" ","h","e","l","l","o"," ">> \o Rep("y", 30)}}

SnippetInit ==
    /\ sn_document \in {<<d>> : d \in SnippetDocuments}
    /\ sn_query \in {<<q>> : q \in QueriesOfTerms(MaxTerms)}
    /\ sn_snippet = <<>>
    /\ PipelineIdle
    /\ RetryIdle
    /\ IndexIdle
    /\ AnalyzerIdle
    /\ ConcurrentIdle
    /\ BatchIdle

\* snippet=self._create_snippet(document, query.query)
CreateSnippet ==
    /\ sn_snippet = <<>>
    /\ sn_snippet' = <<create_snippet(sn_document[1], sn_query[1], DEFAULT_MAX_LENGTH)>>
    /\ UNCHANGED <<sn_document, sn_query>>
    /\ UNCHANGED <<pipelineVars, retryVars, indexVars, analyzerVars, concurrentVars,
                   batchVars>>

SnippetNext == CreateSnippet

SnippetSpec == SnippetInit /\ [][SnippetNext]_vars

-----------------------------------------------------------------------------
(* _create_snippet: properties *)

\* the window of DEFAULT_MAX_LENGTH characters at offset p (counted from 0)
WindowAt(document, p) == SubSeq(document, p + 1, p + DEFAULT_MAX_LENGTH)

\* the number of distinct terms of the query that the window at offset p holds
DistinctTerms(document, query, p) ==
    LET terms == {Split(Lower(query), 1)[k] : k \in 1..Len(Split(Lower(query), 1))}
    IN  Cardinality({t \in terms : Contains(Lower(WindowAt(document, p)), t)})

\* the number of terms of the query, every repetition counted, that the window
\* at offset p holds
RepeatedTerms(document, query, p) ==
    LET terms == Split(Lower(query), 1)
    IN  Cardinality({k \in 1..Len(terms) :
                        Contains(Lower(WindowAt(document, p)), terms[k])})

\* p is the first of the offsets 0..last whose window has the largest score
FirstBest(score, last, p) ==
    /\ p \in 0..last
    /\ \A other \in 0..last : score[other] <= score[p]
    /\ \A other \in 0..(p - 1) : score[other] < score[p]

\* C23: the snippet is taken from the first of the windows that hold the
\* largest number of distinct query terms; when the window does not reach the
\* end of the document it is cut back to its last space before the marker is
\* appended; a document of at most 200 characters is returned unchanged
C23_DistinctTermsWordBoundary ==
    sn_snippet # <<>> =>
        LET document == sn_document[1]
            last     == Len(document) - DEFAULT_MAX_LENGTH
            score    == [p \in 0..last |-> DistinctTerms(document, sn_query[1], p)]
        IN  IF last <= 0 THEN sn_snippet[1] = document
            ELSE \E p \in 0..last :
                    /\ FirstBest(score, last, p)
                    /\ LET window == WindowAt(document, p)
                           space  == RFindSpace(window)
                       IN  sn_snippet[1] =
                              IF p = last THEN window
                              ELSE IF space >= 0
                              THEN SubSeq(window, 1, space) \o Ellipsis
                              ELSE window \o Ellipsis

\* C23 as amended: the score of a window counts every term of the query as
\* often as the query repeats it, and the window is cut back to its last space
\* only when that space lies behind the first 160 characters of the window
C23_RepeatedTermsNearBoundary ==
    sn_snippet # <<>> =>
        LET document == sn_document[1]
            last     == Len(document) - DEFAULT_MAX_LENGTH
            score    == [p \in 0..last |-> RepeatedTerms(document, sn_query[1], p)]
        IN  IF last <= 0 THEN sn_snippet[1] = document
            ELSE \E p \in 0..last :
                    /\ FirstBest(score, last, p)
                    /\ LET window == WindowAt(document, p)
                           space  == RFindSpace(window)
                       IN  sn_snippet[1] =
                              IF p = last THEN window
                              ELSE IF space > 160
                              THEN SubSeq(window, 1, space) \o Ellipsis
                              ELSE window \o Ellipsis

\* a snippet was built from a window that is neither the first nor the last one
\* of a long document, and was cut back to a space
C23_Witness ==
    /\ sn_snippet # <<>>
    /\ LET document == sn_document[1]
           last     == Len(document) - DEFAULT_MAX_LENGTH
           score    == [p \in 0..last |-> RepeatedTerms(document, sn_query[1], p)]
       IN  \E p \in 1..(last - 1) :
              /\ FirstBest(score, last, p)
              /\ RFindSpace(WindowAt(document, p)) > 160
              /\ Len(sn_snippet[1]) < DEFAULT_MAX_LENGTH

-----------------------------------------------------------------------------
(* src/src/api/endpoints/emails.py: process_email, several requests at once *)

\* the number of requests that are in progress together
NumRequests == 2

RequestIds == 1..NumRequests

\* the emails of the concurrent requests: they differ in the words that decide
\* priority and sentiment, so the classifications computed from them differ
ConcurrentEmails ==
    {[subject |-> <<"U","R","G","E","N","T">>, body |-> <<"n","o","t">>,
      sender |-> <<ValidSender>>],
     [subject |-> <<"w","o","r","k","i","n","g">>, body |-> <<"n","o","t">>,
      sender |-> <<ValidSender>>]}

\* the answers of the completion service to the prompts of the concurrent
\* requests: a failure and one well-formed answer for each prompt
ConcurrentClassifyReplies ==
    {[kind |-> "error", category |-> <<>>, subcategory |-> <<>>, confidence |-> <<>>,
      priority |-> <<>>],
     [kind |-> "object", category |-> <<"complaint">>, subcategory |-> <<>>,
      confidence |-> <<10>>, priority |-> <<>>]}

ConcurrentResponseReplies ==
    {[kind |-> "error", content |-> <<>>, tone |-> <<>>, suggested_actions |-> <<>>,
      confidence |-> <<>>],
     [kind |-> "object", content |-> <<[text |-> "Thank you", len |-> 9]>>,
      tone |-> <<"professional">>, suggested_actions |-> <<>>, confidence |-> <<9>>]}

\* the frame of one process_email call: its parameter, its locals and the
\* place it has reached.  email_id = str(uuid.uuid4()): no two calls get the
\* same id
NewRequest(id, em) ==
    [email_id |-> id, email |-> em, pc |-> "classify", ai_reply |-> NoReply,
     content |-> <<>>, classification |-> NoValue, resp_reply |-> NoReply,
     prompt |-> <<>>, response |-> NoValue, result |-> <<>>, http_status |-> 0]

ConcurrentInit ==
    /\ requests \in {[r \in RequestIds |-> NewRequest(r, chosen[r])] :
                        chosen \in [RequestIds -> ConcurrentEmails]}
    /\ database = {}
    /\ PipelineIdle
    /\ RetryIdle
    /\ IndexIdle
    /\ AnalyzerIdle
    /\ SnippetIdle
    /\ BatchIdle

\* mutant: the email is kept in one place that all the calls share, and the
\* last request that arrived has overwritten it
EmailOfLatest(reqs, r) == reqs[Len(reqs)].email

\* the parameter `email` of the call r of process_email
EmailOf(reqs, r) == reqs[r].email

\* classification = await processor.classify_email(email)
ProcessClassify(r) ==
    /\ requests[r].pc = "classify"
    /\ \E reply \in ConcurrentClassifyReplies :
         LET em     == EmailOf(requests, r)
             result == classify_email(em, reply)
         IN  requests' = [requests EXCEPT
                 ![r].ai_reply = reply,
                 ![r].content = <<ClassifyContent(em)>>,
                 ![r].classification = result,
                 ![r].pc = AfterStep(result, "respond"),
                 ![r].http_status = IF result = NoValue THEN 500 ELSE @]
    /\ UNCHANGED database
    /\ UNCHANGED <<pipelineVars, retryVars, indexVars, analyzerVars, snippetVars,
                   batchVars>>

\* response = await llm_client.generate_response(email, classification)
ProcessRespond(r) ==
    /\ requests[r].pc = "respond"
    /\ \E reply \in ConcurrentResponseReplies :
         LET em     == EmailOf(requests, r)
             result == generate_response(reply)
         IN  requests' = [requests EXCEPT
                 ![r].resp_reply = reply,
                 ![r].prompt = <<[email |-> em,
                                  classification |-> requests[r].classification]>>,
                 ![r].response = result,
                 ![r].pc = AfterStep(result, "store"),
                 ![r].http_status = IF result = NoValue THEN 500 ELSE @]
    /\ UNCHANGED database
    /\ UNCHANGED <<pipelineVars, retryVars, indexVars, analyzerVars, snippetVars,
                   batchVars>>

\* result = EmailProcessingResult(...);
\* await processor.store_email(email_id, email, result); return result
ProcessStore(r) ==
    /\ requests[r].pc = "store"
    /\ LET em     == EmailOf(requests, r)
           result == [email_id |-> requests[r].email_id,
                      classification |-> requests[r].classification,
                      response |-> requests[r].response]
       IN  \E ok \in BOOLEAN :
             /\ requests' = [requests EXCEPT
                    ![r].result = <<result>>,
                    ![r].pc = "done",
                    ![r].http_status = IF ok THEN 200 ELSE 500]
             /\ database' = IF ok
                            THEN database \cup
                                   {[id |-> requests[r].email_id,
                                     subject |-> em.subject,
                                     body |-> em.body,
                                     sender |-> em.sender,
                                     classification |-> result.classification,
                                     response |-> result.response]}
                            ELSE database
    /\ UNCHANGED <<pipelineVars, retryVars, indexVars, analyzerVars, snippetVars,
                   batchVars>>

ConcurrentNext ==
    \E r \in RequestIds : ProcessClassify(r) \/ ProcessRespond(r) \/ ProcessStore(r)

ConcurrentSpec == ConcurrentInit /\ [][ConcurrentNext]_vars

\* C24: whatever the interleaving, each pipeline classifies and answers its own
\* email, its result carries its own id, classification and response, and the
\* record stored under its id holds its own email, classification and response
C24_PipelinesIsolated ==
    /\ \A r \in RequestIds :
         LET req == requests[r]
         IN  /\ req.content # <<>> =>
                  /\ req.content[1] = ClassifyContent(req.email)
                  /\ req.classification = classify_email(req.email, req.ai_reply)
             /\ req.prompt # <<>> =>
                  /\ req.prompt[1].email = req.email
                  /\ req.prompt[1].classification = req.classification
                  /\ req.response = generate_response(req.resp_reply)
             /\ req.result # <<>> =>
                  /\ req.result[1].email_id = req.email_id
                  /\ req.result[1].classification
                        = classify_email(req.email, req.ai_reply)
                  /\ req.result[1].response = generate_response(req.resp_reply)
    /\ \A row \in database :
         \E r \in RequestIds :
            /\ row.id = requests[r].email_id
            /\ requests[r].http_status = 200
            /\ row.subject = requests[r].email.subject
            /\ row.body = requests[r].email.body
            /\ row.classification = classify_email(requests[r].email, requests[r].ai_reply)
            /\ row.response = generate_response(requests[r].resp_reply)
    /\ \A row, other \in database : row.id = other.id => row = other

\* two pipelines on different emails have both stored their record, and the
\* two classifications differ
C24_Witness ==
    /\ Cardinality(database) >= 2
    /\ \E r, q \in RequestIds :
          /\ requests[r].email # requests[q].email
          /\ requests[r].http_status = 200
          /\ requests[q].http_status = 200
          /\ requests[r].classification # requests[q].classification

-----------------------------------------------------------------------------
(* search_emails and total_count: properties *)

\* C25: when search returns for a valid query, search_emails answers with
\* success, and its response carries the query text and the results and the
\* total_count that search returned.
C25_EndpointReturnsEngineResults ==
    SearchReturned =>
        /\ last_op.api_status = 200
        /\ last_op.api_response = <<[query |-> last_op.text,
                                     results |-> last_op.results,
                                     total_count |-> last_op.total_count]>>

\* the entries that satisfy the filters of a query
Satisfying(idx, category_filter, date_from, date_to) ==
    {e \in idx :
        /\ Has(category_filter) => e.metadata.category = category_filter
        /\ Has(date_from) => Has(e.metadata.timestamp)
                             /\ e.metadata.timestamp[1] >= date_from[1]
        /\ Has(date_to) => Has(e.metadata.timestamp)
                           /\ e.metadata.timestamp[1] <= date_to[1]}

\* C27: the total_count of a search is the number of indexed emails that match
\* the query and its filters, also when the limit is smaller than that number.
C27_TotalCountIsAllMatches ==
    SearchReturned =>
        last_op.total_count =
            Cardinality(Satisfying(last_op.before, last_op.category_filter,
                                   last_op.date_from, last_op.date_to))


\* C26: when process_email has completed successfully, the email is stored in
\* the database and in the similarity index, where a later search or
\* find_similar can find it.
C26_StoredInDatabaseAndIndex ==
    (pc = "done" /\ http_status = 200) =>
        /\ stored
        /\ \E e \in index : Contains(e.document, email.body)

-----------------------------------------------------------------------------
(* classify_email (enhanced_email_classifier): prompts and invalid answers *)

\* the completion calls among the events, in order
CallEvents == SelectSeq(events, LAMBDA e : e.type = "call")

\* C28: all attempts of one classify_email call send the same prompt: the
\* subject and the body that the retry truncates again are what they were after
\* the first truncation, no shorter and with one ellipsis.
C28_SamePromptOnRetry ==
    /\ \A i, j \in 1..Len(CallEvents) : CallEvents[i].prompt = CallEvents[j].prompt
    /\ CallEvents # <<>> =>
          /\ Truncate(ec_subject, max_subject_length) = ec_subject
          /\ Truncate(ec_body, max_body_length) = ec_body
          /\ CallEvents[Len(CallEvents)].prompt = <<ec_subject, ec_body>>

\* the third attempt was made with a subject and a body that had been truncated
C28_Witness ==
    /\ Len(CallEvents) = MAX_RETRIES
    /\ Len(ec_subject) = max_subject_length + 3
    /\ Len(ec_body) = max_body_length + 3
    /\ CallEvents[1].prompt = CallEvents[MAX_RETRIES].prompt

IsInvalidAnswer(e) ==
    /\ e.type = "call"
    /\ e.kind = "text"
    /\ Lower(Strip(e.text)) \notin VALID_CATEGORIES

\* C29: a completion call that returns a text that is not a valid category
\* ends the classification with the default category: it is the last event (no
\* delay and no call follow it), and the retry count is what the failures
\* before it made it.
C29_InvalidAnswerEndsAtOnce ==
    \A i \in 1..Len(events) :
        IsInvalidAnswer(events[i]) =>
            /\ i = Len(events)
            /\ ec_pc = "done"
            /\ ec_result = <<DEFAULT_CATEGORY>>
            /\ retry_count = Len(CallEvents) - 1
            /\ \A j \in 1..(i - 1) : events[j].type = "call" => events[j].kind # "text"

\* after one failed call and the delay, the second call was answered with a
\* text that is not a category
C29_Witness ==
    /\ Len(events) = 3
    /\ IsInvalidAnswer(events[3])
    /\ events[3].text # <<>>
    /\ retry_count = 1
    /\ ec_result = <<DEFAULT_CATEGORY>>

-----------------------------------------------------------------------------
(* src/enhanced_email_classifier.py: process_email_batch                    *)
(* src/simple_email_classifier.py: EmailClassifier.classify_dataframe       *)

\* the number of rows of a frame
MaxRows == 2

\* index labels of a row, the idx of `for idx, row in df.iterrows()`: 0 and 9
\* as a RangeIndex gives them, -1, and a label that is a string
IndexLabels ==
    {[kind |-> "int", value |-> 0], [kind |-> "int", value |-> 9],
     [kind |-> "int", value |-> -1], [kind |-> "str", value |-> 0]}

\* what classifying a row does: it returns a category (the default one when
\* the completion fails), or it raises
RowFates ==
    {[kind |-> "returns", category |-> <<"o","r","d","e","r">>],
     [kind |-> "returns", category |-> DEFAULT_CATEGORY],
     [kind |-> "raises", category |-> <<>>]}

BatchRows == [label : IndexLabels, fate : RowFates]

\* the frames of n rows at most
RECURSIVE FramesOfRows(_)
FramesOfRows(n) ==
    IF n = 0 THEN {<<>>}
    ELSE LET shorter == FramesOfRows(n - 1)
         IN  shorter \cup {Append(f, row) : f \in shorter, row \in BatchRows}

BatchInit ==
    /\ b_function \in {"process_email_batch", "classify_dataframe"}
    /\ b_rows \in FramesOfRows(MaxRows)
    /\ b_pos = 0
    /\ b_categories = <<>>
    /\ b_pc = "loop"
    /\ b_column = <<>>
    /\ PipelineIdle
    /\ RetryIdle
    /\ IndexIdle
    /\ AnalyzerIdle
    /\ SnippetIdle
    /\ ConcurrentIdle

\* the progress logging of classify_dataframe, after the category of the row
\* was appended: (idx + 1) % 10 raises TypeError for a label that is a string,
\* elapsed / (idx + 1) raises ZeroDivisionError for the label -1
ProgressLoggingRaises(label) ==
    \/ label.kind = "str"
    \/ label.kind = "int" /\ (label.value + 1) % 10 = 0 /\ label.value + 1 = 0

\* one iteration of the loop of classify_dataframe: what is appended to
\* categories
DataframeIteration(row) ==
    IF row.fate.kind = "raises" THEN <<DEFAULT_CATEGORY>>
    ELSE IF ProgressLoggingRaises(row.label)
    THEN <<row.fate.category, DEFAULT_CATEGORY>>     \* appended, then except
    ELSE <<row.fate.category>>

\* one iteration of the loop of process_email_batch: its progress logging
\* divides by processed_count, which is at least 1, and by len(emails_df),
\* which is at least 1 inside the loop
BatchIteration(row) ==
    IF row.fate.kind = "raises" THEN <<DEFAULT_CATEGORY>>
    ELSE <<row.fate.category>>

\* for idx, row in df.iterrows(): try: ... except Exception: ...
ClassifyRow ==
    /\ b_pc = "loop"
    /\ b_pos < Len(b_rows)
    /\ b_pos' = b_pos + 1
    /\ b_categories' = b_categories \o
                         (IF b_function = "classify_dataframe"
                          THEN DataframeIteration(b_rows[b_pos + 1])
                          ELSE BatchIteration(b_rows[b_pos + 1]))
    /\ UNCHANGED <<b_function, b_rows, b_pc, b_column>>
    /\ UNCHANGED <<pipelineVars, retryVars, indexVars, analyzerVars, snippetVars,
                   concurrentVars>>

\* df['category'] = categories raises ValueError when the lengths differ;
\* process_email_batch then computes total_time / len(emails_df), which raises
\* ZeroDivisionError for a frame without rows, after the column was set in place
AssignColumn ==
    /\ b_pc = "loop"
    /\ b_pos = Len(b_rows)
    /\ IF Len(b_categories) # Len(b_rows)
       THEN b_pc' = "raised" /\ UNCHANGED b_column
       ELSE /\ b_column' = <<b_categories>>
            /\ b_pc' = IF b_function = "process_email_batch" /\ Len(b_rows) = 0
                       THEN "raised" ELSE "done"
    /\ UNCHANGED <<b_function, b_rows, b_pos, b_categories>>
    /\ UNCHANGED <<pipelineVars, retryVars, indexVars, analyzerVars, snippetVars,
                   concurrentVars>>

BatchNext == ClassifyRow \/ AssignColumn

BatchSpec == BatchInit /\ [][BatchNext]_vars

\* the category a row is to get: the one its classification returns, the
\* default one when its classification fails
CategoryOfRow(row) ==
    IF row.fate.kind = "raises" THEN DEFAULT_CATEGORY ELSE row.fate.category

\* C30: whatever the rows and the failures, the batch functions do not abort,
\* keep one category for each row that was processed, and return a column that
\* has for each row, in row order, the category of that row, a valid one.
C30_OneCategoryPerRow ==
    /\ b_pc # "raised"
    /\ b_pc = "loop" => Len(b_categories) = b_pos
    /\ b_pc = "done" =>
          /\ b_column # <<>>
          /\ Len(b_column[1]) = Len(b_rows)
          /\ \A i \in 1..Len(b_rows) :
                /\ b_column[1][i] = CategoryOfRow(b_rows[i])
                /\ b_column[1][i] \in VALID_CATEGORIES

====
